---- MODULE Spec2Model ----
(***************************************************************************)
(* Model of the custom delivery curve generator (curvesmith.ts):           *)
(* DateRange, FlightDetails, ScheduledEvent, GoalContext, the two curve    *)
(* segment classes and CurveTemplate.generateCurveSegments; and of its     *)
(* callers: AdManagerHandler.applyCurveToLineItems and the server          *)
(* functions that load and upload line items.                              *)
(*                                                                         *)
(* JavaScript numbers are modelled as exact rationals [n, d] (d > 0, in    *)
(* lowest terms), with the IEEE special values that a division by zero     *)
(* produces (NaN, +Infinity, -Infinity) as values with d = 0.  Instants    *)
(* are integers, the milliseconds of Date.valueOf().                       *)
(*                                                                         *)
(* Spec, SpecPlacement and SpecLongFlight follow one call of               *)
(* generateCurveSegments, SpecCalls a sequence of calls on one template    *)
(* (getLineItemPreviews), SpecDateRange the construction of the range      *)
(* objects, SpecApply one call of applyCurveToLineItems, SpecUpload (with  *)
(* weak fairness: SpecUploadFair) the upload of one batch of line items    *)
(* and SpecLoad the concurrent page requests of one load of line items.    *)
(***************************************************************************)
EXTENDS Integers, Sequences, FiniteSets, TLC

VARIABLES
    flight,         \* the FlightDetails passed to generateCurveSegments
    events,         \* CurveTemplate.events
    goalType,       \* CurveTemplate.goalType
    pc,             \* position inside generateCurveSegments
    i,              \* index of the next event of the for-of loop
    currentStart,   \* local of processEventsByDay / processEventsByTotal
    segments,       \* the CurveSegment[] under construction / returned
    goalContext,    \* the GoalContext of this call
    totalGoalPercent, \* local of generateCurveSegments (the reduce result)
    error,          \* message of the Error thrown, NoError if none
    previous,       \* how the previous call on this template ended:
                    \* "returned", "thrown", or "none" at the first call
    construction,   \* the last `new DateRange(start, end)` (or subclass):
                    \* its class, the two Dates made of its arguments and
                    \* the exception it threw
    ranges,         \* the DateRange objects that exist
    lineItems,      \* the ad_manager.LineItem[] given to
                    \* AdManagerHandler.applyCurveToLineItems
    applied,        \* where applyCurveToLineItems is ("none" before the
                    \* call), the index of the line item of its loop and
                    \* the message of the Error it threw
    lineItemIdsBatch, \* the IDs of the batch to upload
    uploadPc,       \* position inside the server function uploadLineItems
                    \* and the transformAndUploadLineItems it calls
    attempt,        \* local of transformAndUploadLineItems
    lineItemsRetrieved, \* local of transformAndUploadLineItems
    uploadComplete, \* local of transformAndUploadLineItems
    batch,          \* local lineItems of transformAndUploadLineItems: the
                    \* IDs of the line items of the batch still to upload
    errorMessages,  \* local of transformAndUploadLineItems
    uploadThrown,   \* what transformAndUploadLineItems threw, if anything
    downloadCalls,  \* number of calls of getLineItemsWithIds so far
    uploadCalls,    \* number of calls of adManagerHandler.uploadLineItems
    sleeps,         \* the seconds of each Utilities.sleep so far
    caught,         \* the exception e of the last attempt, if it threw
    reported,       \* what the caller of uploadLineItems observes
    taskTotal,      \* the user property 'total' (TaskProgress.total)
    taskCurrent,    \* the user property 'current'
    scriptProperties, \* the offsets k of the script properties
                    \* 'lineItemDtoPage' + k; page k holds the rows k
    loadPc,         \* position of each loadLineItems call
    validKeys,      \* local of each loadLineItems call
    keyIndex,       \* position of each call in `for (const key of cacheKeys)`
    lineItemRows,   \* local of writeLineItemMetadata in each call
    written         \* the arguments of each sheetHandler.writeLineItems

dateRangeVars == <<construction, ranges>>

curveVars == <<flight, events, goalType, pc, i, currentStart, segments,
               goalContext, totalGoalPercent, error, previous>>

adManagerVars == <<lineItems, applied>>

uploadVars == <<lineItemIdsBatch, uploadPc, attempt, lineItemsRetrieved,
                uploadComplete, batch, errorMessages, uploadThrown,
                downloadCalls, uploadCalls, sleeps, caught, reported>>

loadVars == <<taskTotal, taskCurrent, scriptProperties, loadPc, validKeys,
              keyIndex, lineItemRows, written>>

\* the state of the code around the curve generator
serviceVars == <<adManagerVars, uploadVars, loadVars>>

vars == <<flight, events, goalType, pc, i, currentStart, segments,
          goalContext, totalGoalPercent, error, previous, dateRangeVars,
          serviceVars>>

----------------------------------------------------------------------------
(* Bounds of the checked instances *)

\* longest event list of Spec
MaxEvents == 3

\* longest event list of SpecPlacement
MaxPlacementEvents == 3

\* number of instants after the first one
MaxTime == 3

\* largest number of DateRange objects of SpecDateRange
MaxRanges == 2

\* longest event list of the templates of SpecApply
MaxPacingEvents == 2

\* largest number of line items of SpecApply
MaxLineItems == 2

\* largest number of line items of a batch of SpecUpload
MaxBatch == 2

\* largest number of errors of an AdManagerServerFault
MaxErrors == 1

\* largest number of pages of a load of SpecLoad
MaxPages == 2

----------------------------------------------------------------------------
(* Numbers *)

Abs(x) == IF x < 0 THEN -x ELSE x

RECURSIVE GCD(_, _)
GCD(a, b) == IF b = 0 THEN a ELSE GCD(b, a % b)

Sign(x) == IF x < 0 THEN -1 ELSE IF x > 0 THEN 1 ELSE 0

NaN == [n |-> 0, d |-> 0]

Infinity(s) == [n |-> s, d |-> 0]

IsNaN(a) == a.d = 0 /\ a.n = 0

IsFinite(a) == a.d > 0

\* the number n/d in lowest terms, d > 0
Frac(n, d) ==
    LET g == GCD(Abs(n), Abs(d))
        s == IF d < 0 THEN -1 ELSE 1
    IN  [n |-> s * (n \div g), d |-> s * (d \div g)]

Num(k) == [n |-> k, d |-> 1]

Zero == Num(0)

Neg(a) == [n |-> -a.n, d |-> a.d]

\* a + b
Add(a, b) ==
    IF IsFinite(a) /\ IsFinite(b)
    THEN LET g == GCD(a.d, b.d)
         IN  Frac(a.n * (b.d \div g) + b.n * (a.d \div g), a.d * (b.d \div g))
    ELSE IF IsNaN(a) \/ IsNaN(b) THEN NaN
    ELSE IF IsFinite(a) THEN b
    ELSE IF IsFinite(b) THEN a
    ELSE IF a.n = b.n THEN a ELSE NaN

\* a - b
Sub(a, b) == Add(a, Neg(b))

\* a * b
Mul(a, b) ==
    IF IsFinite(a) /\ IsFinite(b)
    THEN LET g1 == GCD(Abs(a.n), b.d)
             g2 == GCD(Abs(b.n), a.d)
         IN  IF a.n = 0 \/ b.n = 0 THEN Zero
             ELSE Frac((a.n \div g1) * (b.n \div g2),
                       (a.d \div g2) * (b.d \div g1))
    ELSE IF IsNaN(a) \/ IsNaN(b) \/ a.n = 0 \/ b.n = 0 THEN NaN
    ELSE Infinity(Sign(a.n) * Sign(b.n))

\* a / b
Div(a, b) ==
    IF IsFinite(a) /\ IsFinite(b)
    THEN IF b.n = 0
         THEN IF a.n = 0 THEN NaN ELSE Infinity(Sign(a.n))
         ELSE Mul(a, Frac(b.d, b.n))
    ELSE IF IsNaN(a) \/ IsNaN(b) THEN NaN
    ELSE IF IsFinite(a) THEN Zero
    ELSE IF IsFinite(b) THEN Infinity(Sign(a.n) * (IF b.n < 0 THEN -1 ELSE 1))
    ELSE NaN

\* a < b (false when either is NaN)
Less(a, b) ==
    /\ ~IsNaN(a)
    /\ ~IsNaN(b)
    /\ IF IsFinite(a) /\ IsFinite(b) THEN Sub(a, b).n < 0
       ELSE IF IsFinite(a) THEN b.n > 0
       ELSE IF IsFinite(b) THEN a.n < 0
       ELSE a.n < b.n

\* a <= b (false when either is NaN)
LessEq(a, b) == ~IsNaN(a) /\ ~IsNaN(b) /\ (a = b \/ Less(a, b))

\* Math.abs
MathAbs(a) == [n |-> Abs(a.n), d |-> a.d]

----------------------------------------------------------------------------
(* Program constants *)

MILLISECONDS_PER_HOUR == 1000 * 60 * 60

TOTAL_PERCENT_REQUIRED == 100

PERCENT_ERROR_THRESHOLD == Frac(1, 1000)

DEFAULT_TITLE == "Untitled"

NoError == "none"

----------------------------------------------------------------------------
(* Inputs *)

\* instant number t of the instance: 0h, 12h, 36h, 72h, ... after the epoch,
\* so that the gaps between consecutive instants differ
Instant(t) == ((t * (t + 1)) \div 2) * 12 * MILLISECONDS_PER_HOUR

Instants == {Instant(t) : t \in 0..MaxTime}

\* every DateRange that the constructor accepts (DateRange.validate)
DateRanges ==
    {r \in [start : Instants, end : Instants] : r.start < r.end}

\* (goalPercent, title) of the scheduled-event rows of a template
EventRows ==
    { <<Num(0), "Z">>, <<Num(20), "">>, <<Num(50), "B">>, <<Num(100), "C">>,
      <<Frac(199999, 2000), "E">>, <<Num(-20), "N">>,
      <<Frac(99999, 1000), " ">>, <<Num(150), "F">> }

ScheduledEvents ==
    {[start |-> r.start, end |-> r.end, goalPercent |-> row[1],
      title |-> row[2]] : r \in DateRanges, row \in EventRows}

ImpressionGoals == {0, 1000}

FlightDetails ==
    {[start |-> r.start, end |-> r.end, impressionGoal |-> g] :
        r \in DateRanges, g \in ImpressionGoals}

GoalTypes == {"TOTAL", "DAY"}

\* event e can follow the events s of a template for flight fl: it lies in
\* the flight and starts no earlier than the last event of s ends
Fits(fl, s, e) ==
    /\ fl.start <= e.start
    /\ e.end <= fl.end
    /\ s # <<>> => s[Len(s)].end <= e.start

\* the event lists of at most k events, in start order, pairwise disjoint and
\* inside flight fl
RECURSIVE FittingEvents(_, _)
FittingEvents(fl, k) ==
    IF k = 0 THEN {<<>>}
    ELSE LET shorter == FittingEvents(fl, k - 1)
             longest == {s \in shorter : Len(s) = k - 1}
         IN  shorter \cup
             {Append(p[1], p[2]) :
                 p \in {q \in longest \X ScheduledEvents :
                           Fits(fl, q[1], q[2])}}

\* the rows of the templates of SpecPlacement
PlacementRows == { <<Num(20), "A">>, <<Num(100), "">> }

PlacementEvents ==
    {[start |-> r.start, end |-> r.end, goalPercent |-> row[1],
      title |-> row[2]] : r \in DateRanges, row \in PlacementRows}

\* the flights of SpecPlacement: all instants but the last one, and all
\* instants but the first one
PlacementFlights ==
    {fl \in FlightDetails :
        /\ \/ fl.start = Instant(0) /\ fl.end = Instant(MaxTime - 1)
           \/ fl.start = Instant(1) /\ fl.end = Instant(MaxTime)
        /\ fl.impressionGoal > 0}

\* the sequences of at most k elements of S
RECURSIVE SeqsUpTo(_, _)
SeqsUpTo(S, k) ==
    IF k = 0 THEN {<<>>}
    ELSE LET shorter == SeqsUpTo(S, k - 1)
         IN  shorter \cup {Append(s, x) : s \in {t \in shorter : Len(t) = k - 1},
                                          x \in S}

----------------------------------------------------------------------------
(* DateRange *)

\* contains with the test of the end left out
contains_StartOnly(this, dateRange) == dateRange.start >= this.start

contains(this, dateRange) ==
    dateRange.start >= this.start /\ dateRange.end <= this.end

\* overlaps testing only whether the other range starts inside this one
overlaps_StartInside(this, dateRange) ==
    this.start <= dateRange.start /\ this.end > dateRange.start

\* overlaps with adjacent ranges taken as intersecting
overlaps_Inclusive(this, dateRange) ==
    this.start <= dateRange.end /\ this.end >= dateRange.start

overlaps(this, dateRange) ==
    this.start < dateRange.end /\ this.end > dateRange.start

\* what a constructor call leaves when nothing is thrown
NoException == [name |-> "none", message |-> ""]

\* validate accepting a range of no duration
validate_AllowEmpty(startDate, endDate) ==
    IF startDate.type # "Date" \/ endDate.type # "Date"
    THEN [name |-> "TypeError", message |-> "Input values must be Date objects"]
    ELSE IF IsNaN(startDate.time) \/ IsNaN(endDate.time)
    THEN [name |-> "RangeError",
          message |-> "Input values must be valid dates"]
    ELSE IF Less(endDate.time, startDate.time)
    THEN [name |-> "RangeError",
          message |-> "Start date must strictly precede end date"]
    ELSE NoException

\* DateRange.validate: the exception thrown, NoException if none
validate(startDate, endDate) ==
    IF startDate.type # "Date" \/ endDate.type # "Date"
    THEN [name |-> "TypeError", message |-> "Input values must be Date objects"]
    ELSE IF IsNaN(startDate.time) \/ IsNaN(endDate.time)
    THEN [name |-> "RangeError",
          message |-> "Input values must be valid dates"]
    ELSE IF ~Less(startDate.time, endDate.time)
    THEN [name |-> "RangeError",
          message |-> "Start date must strictly precede end date"]
    ELSE NoException

\* the texts of the instants 0h, 12h, 36h, 72h and 120h after the epoch
DateTexts ==
    << "1970-01-01T00:00:00Z", "1970-01-01T12:00:00Z", "1970-01-02T12:00:00Z",
       "1970-01-04T00:00:00Z", "1970-01-06T00:00:00Z" >>

\* Date.parse: the time value of a text, NaN if it is not a date
DateParse(text) ==
    IF \E t \in 1..Len(DateTexts) : DateTexts[t] = text
    THEN Num(Instant((CHOOSE t \in 1..Len(DateTexts) : DateTexts[t] = text)
                     - 1))
    ELSE NaN

\* a Date object with time value time (NaN: an invalid Date)
Date(time) == [type |-> "Date", time |-> time]

\* new Date(value) for a Date or a string
NewDate(value) ==
    IF value.type = "Date" THEN Date(value.time)
    ELSE Date(DateParse(value.text))

\* the arguments `Date | string` of the constructors: valid and invalid
\* Dates, texts of dates and a text that is not a date
DateArguments ==
    {Date(Num(t)) : t \in Instants} \cup {Date(NaN)} \cup
    {[type |-> "string", text |-> DateTexts[t + 1]] :
        t \in 0..(IF MaxTime < Len(DateTexts) THEN MaxTime
                  ELSE Len(DateTexts) - 1)} \cup
    {[type |-> "string", text |-> "invalid"]}

RangeClasses == {"DateRange", "FlightDetails", "ScheduledEvent"}

(* ScheduledEvent *)

\* getTitleForCurve without the fallback
getTitleForCurve_Stored(event) == event.title

getTitleForCurve(event) ==
    IF event.title # "" THEN event.title ELSE DEFAULT_TITLE

(* GoalContext *)

GoalContext(type, impressionGoal) ==
    [goalType |-> type, impressionGoal |-> impressionGoal,
     unscheduledHours |-> Zero, unscheduledImpressions |-> Zero,
     unscheduledPercent |-> Num(100)]

(* Curve segments *)

\* a Date object handed to a segment: `time` is its instant and the
\* other fields name the property holding the object, since `===`
\* on two Dates compares the objects and not their instants
DateObject(owner, index, field, time) ==
    [owner |-> owner, index |-> index, field |-> field, time |-> time]

\* the Date that currentStart refers to at event k of the loop (and
\* after the loop for k = Len(evs) + 1): flight.start until the first
\* `currentStart = event.end`
currentStartAt(fl, evs, k) ==
    IF k = 1 THEN DateObject("flight", 0, "start", fl.start)
    ELSE DateObject("event", k - 1, "end", evs[k - 1].end)

\* event.start of event k
eventStartAt(evs, k) == DateObject("event", k, "start", evs[k].start)

\* `start` is the instant of the Date and `startDate` the Date itself
ScheduledEventSegment(description, start, goalPercent) ==
    [kind |-> "scheduled", description |-> description,
     start |-> start.time, startDate |-> start,
     hours |-> Zero, goalPercent |-> goalPercent]

\* UnscheduledSegment that does not keep its hours
UnscheduledSegment_NoHours(description, start, hours) ==
    [kind |-> "unscheduled", description |-> description,
     start |-> start.time, startDate |-> start,
     hours |-> Zero, goalPercent |-> Zero]

UnscheduledSegment(description, start, hours) ==
    [kind |-> "unscheduled", description |-> description,
     start |-> start.time, startDate |-> start,
     hours |-> hours, goalPercent |-> Zero]

\* calculateGoal giving a filler the share of the other fillers' hours
calculateGoal_OtherHours(segment, context) ==
    IF segment.kind = "scheduled" THEN segment.goalPercent
    ELSE LET unscheduledTimeProportion ==
                 Sub(Num(1), Div(segment.hours, context.unscheduledHours))
         IN  IF context.goalType = "DAY"
             THEN Div(Mul(Mul(unscheduledTimeProportion,
                              context.unscheduledImpressions), Num(100)),
                      Num(context.impressionGoal))
             ELSE Mul(unscheduledTimeProportion, context.unscheduledPercent)

\* calculateGoal giving a filler the share of the other fillers' hours in
\* DAY mode
calculateGoal_DayOtherHours(segment, context) ==
    IF segment.kind = "scheduled" THEN segment.goalPercent
    ELSE IF context.goalType = "DAY"
    THEN Div(Mul(Mul(Sub(Num(1),
                         Div(segment.hours, context.unscheduledHours)),
                     context.unscheduledImpressions), Num(100)),
             Num(context.impressionGoal))
    ELSE Mul(Div(segment.hours, context.unscheduledHours),
             context.unscheduledPercent)

\* UnscheduledSegment.calculateGoal / ScheduledEventSegment.calculateGoal:
\* the value returned, which an unscheduled segment also stores
calculateGoal(segment, context) ==
    IF segment.kind = "scheduled" THEN segment.goalPercent
    ELSE LET unscheduledTimeProportion ==
                 Div(segment.hours, context.unscheduledHours)
         IN  IF context.goalType = "DAY"
             THEN Div(Mul(Mul(unscheduledTimeProportion,
                              context.unscheduledImpressions), Num(100)),
                      Num(context.impressionGoal))
             ELSE Mul(unscheduledTimeProportion, context.unscheduledPercent)

(* CurveTemplate *)

\* hoursBetween taking the hours from end to start
hoursBetween_Reversed(start, end) == Frac(start - end, MILLISECONDS_PER_HOUR)

hoursBetween(start, end) == Frac(end - start, MILLISECONDS_PER_HOUR)

\* checkDateRange with the test of the order left out
checkDateRange_NoOrder(fl, evs, k) ==
    IF ~contains(fl, evs[k])
    THEN "Event date range is outside flight range"
    ELSE IF k > 1 /\ overlaps(evs[k], evs[k - 1])
    THEN "Events date ranges must never overlap"
    ELSE NoError

\* checkDateRange with the overlap tested before the order
checkDateRange_OverlapFirst(fl, evs, k) ==
    IF ~contains(fl, evs[k])
    THEN "Event date range is outside flight range"
    ELSE IF k > 1 /\ overlaps(evs[k], evs[k - 1])
    THEN "Events date ranges must never overlap"
    ELSE IF k > 1 /\ evs[k].start < evs[k - 1].start
    THEN "Events must be ordered by date"
    ELSE NoError

\* checkDateRange taking the end of the event for its start in the test of
\* the order
checkDateRange_OrderByEnd(fl, evs, k) ==
    IF ~contains(fl, evs[k])
    THEN "Event date range is outside flight range"
    ELSE IF k > 1 /\ evs[k].end < evs[k - 1].start
    THEN "Events must be ordered by date"
    ELSE IF k > 1 /\ overlaps(evs[k], evs[k - 1])
    THEN "Events date ranges must never overlap"
    ELSE NoError

\* the body of the loop of checkDateRanges for event k, dateRange being the
\* previous event (k = 1: null); the message of the error thrown, NoError if
\* none
checkDateRange(fl, evs, k) ==
    IF ~contains(fl, evs[k])
    THEN "Event date range is outside flight range"
    ELSE IF k > 1 /\ evs[k].start < evs[k - 1].start
    THEN "Events must be ordered by date"
    ELSE IF k > 1 /\ overlaps(evs[k], evs[k - 1])
    THEN "Events date ranges must never overlap"
    ELSE NoError

\* the loop of checkDateRanges from event k on
RECURSIVE checkDateRangesFrom(_, _, _)
checkDateRangesFrom(fl, evs, k) ==
    IF k > Len(evs) THEN NoError
    ELSE IF checkDateRange(fl, evs, k) # NoError
    THEN checkDateRange(fl, evs, k)
    ELSE checkDateRangesFrom(fl, evs, k + 1)

checkDateRanges(fl, evs) == checkDateRangesFrom(fl, evs, 1)

\* exceedsTotal with <= for <
exceedsTotal_OrEqual(unscheduledPercent) == LessEq(unscheduledPercent, Zero)

\* exceedsTotal testing the remainder against 100
exceedsTotal_Above100(unscheduledPercent) == Less(Num(100), unscheduledPercent)

\* the test `goalContext.unscheduledPercent < 0` of processEventsByTotal
exceedsTotal(unscheduledPercent) == Less(unscheduledPercent, Zero)

\* endsWithZeroGoal without the test of the end of the event
endsWithZeroGoal_Anywhere(unscheduledPercent, event, fl) ==
    unscheduledPercent = Zero

\* the tests `goalContext.unscheduledPercent === 0` and
\* `event.end < flight.end` of processEventsByTotal
endsWithZeroGoal(unscheduledPercent, event, fl) ==
    unscheduledPercent = Zero /\ event.end < fl.end

\* normalized without the conversion to a percentage
normalized_Fraction(relativeGoal, impressionGoal) ==
    Div(relativeGoal, Num(impressionGoal))

\* `(relativeGoal / flight.impressionGoal) * 100` of processEventsByDay
normalized(relativeGoal, impressionGoal) ==
    Mul(Div(relativeGoal, Num(impressionGoal)), Num(100))

\* goalTooLarge with < for <=
goalTooLarge_Strict(unscheduledImpressions) ==
    Less(unscheduledImpressions, Zero)

\* the test `goalContext.unscheduledImpressions <= 0` of the loop of
\* processEventsByDay
goalTooLarge(unscheduledImpressions) == LessEq(unscheduledImpressions, Zero)

----------------------------------------------------------------------------
(* The callers of generateCurveSegments before they are called *)

\* no exception has been caught by transformAndUploadLineItems
NothingCaught == [name |-> "none", message |-> "", onLineItems |-> FALSE]

\* applyCurveToLineItems has not been called
NoApply ==
    /\ lineItems = <<>>
    /\ applied = [outcome |-> "none", error |-> NoError, index |-> 1]

\* the server function uploadLineItems has not been called
NoUpload ==
    /\ lineItemIdsBatch = <<>>
    /\ uploadPc = "idle"
    /\ attempt = 1
    /\ lineItemsRetrieved = FALSE
    /\ uploadComplete = FALSE
    /\ batch = <<>>
    /\ errorMessages = <<>>
    /\ uploadThrown = "nothing"
    /\ downloadCalls = 0
    /\ uploadCalls = 0
    /\ sleeps = <<>>
    /\ caught = NothingCaught
    /\ reported = "nothing"

\* no load of line items is running
NoLoad ==
    /\ taskTotal = 0
    /\ taskCurrent = 0
    /\ scriptProperties = {}
    /\ loadPc = <<>>
    /\ validKeys = <<>>
    /\ keyIndex = <<>>
    /\ lineItemRows = <<>>
    /\ written = <<>>

NoService == NoApply /\ NoUpload /\ NoLoad

----------------------------------------------------------------------------
(* generateCurveSegments *)

\* the state at the call generateCurveSegments(flight) on a template
\* CurveTemplate(evs, type)
Called(fl, evs, type) ==
    /\ flight = fl
    /\ events = evs
    /\ goalType = type
    /\ pc = "generateCurveSegments"
    /\ i = 1
    /\ currentStart = fl.start
    /\ segments = <<>>
    /\ goalContext = GoalContext(type, fl.impressionGoal)
    /\ totalGoalPercent = Zero
    /\ error = NoError
    /\ previous = "none"
    /\ construction = [class |-> "none", start |-> Date(NaN),
                       end |-> Date(NaN), exception |-> NoException]
    /\ ranges = {}
    /\ NoService

\* calls on the templates that pass checkDateRanges
Init ==
    \E fl \in FlightDetails, type \in GoalTypes :
        \E evs \in FittingEvents(fl, MaxEvents) : Called(fl, evs, type)

\* calls on templates of events placed anywhere, in any order
InitPlacement ==
    \E fl \in PlacementFlights,
       evs \in SeqsUpTo(PlacementEvents, MaxPlacementEvents),
       type \in GoalTypes : Called(fl, evs, type)

\* CheckDateRanges leaving one impression more than the flight has to the
\* fillers in DAY mode
CheckDateRanges_SpareImpression ==
    /\ pc = "generateCurveSegments"
    /\ LET thrown == checkDateRanges(flight, events)
       IN  IF thrown # NoError
           THEN /\ pc' = "thrown"
                /\ error' = thrown
                /\ UNCHANGED goalContext
           ELSE /\ pc' = IF goalType = "DAY" THEN "processEventsByDay"
                         ELSE "processEventsByTotal"
                /\ goalContext' =
                     IF goalType = "DAY"
                     THEN [GoalContext(goalType, flight.impressionGoal)
                             EXCEPT !.unscheduledImpressions =
                                        Num(flight.impressionGoal + 1)]
                     ELSE GoalContext(goalType, flight.impressionGoal)
                /\ UNCHANGED error
    /\ UNCHANGED <<dateRangeVars, serviceVars, previous, flight, events,
                   goalType, i,
                   currentStart,
                   segments,
                   totalGoalPercent>>

\* this.checkDateRanges(flight), new GoalContext, the switch on goalType and
\* the statements of processEventsBy* before the loop
CheckDateRanges ==
    /\ pc = "generateCurveSegments"
    /\ LET thrown == checkDateRanges(flight, events)
       IN  IF thrown # NoError
           THEN /\ pc' = "thrown"
                /\ error' = thrown
                /\ UNCHANGED goalContext
           ELSE /\ pc' = IF goalType = "DAY" THEN "processEventsByDay"
                         ELSE "processEventsByTotal"
                /\ goalContext' =
                     IF goalType = "DAY"
                     THEN [GoalContext(goalType, flight.impressionGoal)
                             EXCEPT !.unscheduledImpressions =
                                        Num(flight.impressionGoal)]
                     ELSE GoalContext(goalType, flight.impressionGoal)
                /\ UNCHANGED error
    /\ UNCHANGED <<dateRangeVars, serviceVars, previous, flight, events,
                   goalType, i,
                   currentStart,
                   segments,
                   totalGoalPercent>>

\* one iteration of the loop of processEventsByDay
ProcessEventByDay ==
    /\ pc = "processEventsByDay"
    /\ i <= Len(events)
    /\ LET event == events[i]
           flightHours == hoursBetween(flight.start, flight.end)
           evenDailyGoal ==
               Mul(Div(Num(flight.impressionGoal), flightHours), Num(24))
           eventTitle == getTitleForCurve(event)
           relativeGoal == Mul(Div(event.goalPercent, Num(100)), evenDailyGoal)
           normalizedPercent ==
               normalized(relativeGoal, flight.impressionGoal)
           hoursBeforeEvent == hoursBetween(currentStart, event.start)
           unscheduledImpressions ==
               Sub(goalContext.unscheduledImpressions, relativeGoal)
           preEvent ==
               IF Less(Zero, hoursBeforeEvent)
               THEN <<UnscheduledSegment("Pre-Event [" \o eventTitle \o "]",
                         currentStartAt(flight, events, i), hoursBeforeEvent)>>
               ELSE <<>>
       IN  IF goalTooLarge(unscheduledImpressions)
           THEN /\ pc' = "thrown"
                /\ error' = "Goal is too large"
                /\ goalContext' = [goalContext EXCEPT
                       !.unscheduledImpressions = unscheduledImpressions]
                /\ UNCHANGED <<i, currentStart, segments>>
           ELSE /\ segments' = segments \o preEvent \o
                       <<ScheduledEventSegment(eventTitle,
                           eventStartAt(events, i),
                                               normalizedPercent)>>
                /\ goalContext' = [goalContext EXCEPT
                       !.unscheduledImpressions = unscheduledImpressions,
                       !.unscheduledHours =
                           IF Less(Zero, hoursBeforeEvent)
                           THEN Add(@, hoursBeforeEvent) ELSE @,
                       !.unscheduledPercent = Sub(@, normalizedPercent)]
                /\ currentStart' = event.end
                /\ i' = i + 1
                /\ UNCHANGED <<pc, error>>
    /\ UNCHANGED <<dateRangeVars, serviceVars, previous, flight, events,
                   goalType,
                   totalGoalPercent>>

\* processEventsByDay after the loop
FinishEventsByDay ==
    /\ pc = "processEventsByDay"
    /\ i > Len(events)
    /\ LET hoursAfterLastEvent == hoursBetween(currentStart, flight.end)
       IN  IF Less(Zero, hoursAfterLastEvent)
           THEN IF LessEq(goalContext.unscheduledImpressions, Zero)
                THEN /\ pc' = "thrown"
                     /\ error' = "Goal is too large."
                     /\ UNCHANGED <<segments, goalContext>>
                ELSE /\ segments' = Append(segments,
                            UnscheduledSegment("Post-Events",
                                currentStartAt(flight, events, i),
                                               hoursAfterLastEvent))
                     /\ goalContext' = [goalContext EXCEPT
                            !.unscheduledHours = Add(@, hoursAfterLastEvent)]
                     /\ pc' = "calculateGoals"
                     /\ UNCHANGED error
           ELSE /\ pc' = "calculateGoals"
                /\ UNCHANGED <<segments, goalContext, error>>
    /\ UNCHANGED <<dateRangeVars, serviceVars, previous, flight, events,
                   goalType, i,
                   currentStart,
                   totalGoalPercent>>

\* one iteration of the loop of processEventsByTotal
ProcessEventByTotal ==
    /\ pc = "processEventsByTotal"
    /\ i <= Len(events)
    /\ LET event == events[i]
           eventTitle == getTitleForCurve(event)
           hoursBeforeEvent == hoursBetween(currentStart, event.start)
           preEvent ==
               IF Less(Zero, hoursBeforeEvent)
               THEN <<UnscheduledSegment("Pre-Event [" \o eventTitle \o "]",
                         currentStartAt(flight, events, i), hoursBeforeEvent)>>
               ELSE <<>>
           unscheduledPercent ==
               Sub(goalContext.unscheduledPercent, event.goalPercent)
       IN  /\ segments' = segments \o preEvent \o
                  <<ScheduledEventSegment(eventTitle, eventStartAt(events, i),
                                          event.goalPercent)>>
           /\ goalContext' = [goalContext EXCEPT
                  !.unscheduledHours =
                      IF Less(Zero, hoursBeforeEvent)
                      THEN Add(@, hoursBeforeEvent) ELSE @,
                  !.unscheduledPercent = unscheduledPercent]
           /\ currentStart' = event.end
           /\ IF exceedsTotal(unscheduledPercent)
              THEN /\ pc' = "thrown"
                   /\ error' = "Total goal percent is greater than 100"
                   /\ UNCHANGED i
              ELSE IF endsWithZeroGoal(unscheduledPercent, event, flight)
              THEN /\ pc' = "thrown"
                   /\ error' = "The curve cannot end with a 0 percent goal"
                   /\ UNCHANGED i
              ELSE /\ i' = i + 1
                   /\ UNCHANGED <<pc, error>>
    /\ UNCHANGED <<dateRangeVars, serviceVars, previous, flight, events,
                   goalType,
                   totalGoalPercent>>

\* processEventsByTotal after the loop
FinishEventsByTotal ==
    /\ pc = "processEventsByTotal"
    /\ i > Len(events)
    /\ LET hoursAfterLastEvent == hoursBetween(currentStart, flight.end)
       IN  IF Less(Zero, hoursAfterLastEvent)
           THEN /\ segments' = Append(segments,
                       UnscheduledSegment("Post-Events",
                           currentStartAt(flight, events, i),
                                          hoursAfterLastEvent))
                /\ goalContext' = [goalContext EXCEPT
                       !.unscheduledHours = Add(@, hoursAfterLastEvent)]
           ELSE UNCHANGED <<segments, goalContext>>
    /\ pc' = "calculateGoals"
    /\ UNCHANGED <<dateRangeVars, serviceVars, previous, flight, events,
                   goalType, i,
                   currentStart,
                   totalGoalPercent, error>>

\* exceedsThreshold with >= for >
exceedsThreshold_OrEqual(difference) ==
    LessEq(PERCENT_ERROR_THRESHOLD, MathAbs(difference))

\* the test `Math.abs(difference) > PERCENT_ERROR_THRESHOLD`
exceedsThreshold(difference) ==
    Less(PERCENT_ERROR_THRESHOLD, MathAbs(difference))

\* the segments after every calculateGoal of the reduce has run
calculatedSegments(segs, context) ==
    [k \in 1..Len(segs) |->
        [segs[k] EXCEPT !.goalPercent = calculateGoal(segs[k], context)]]

\* segments.reduce((sum, x) => sum + x.calculateGoal(goalContext), 0)
RECURSIVE sumGoals(_, _)
sumGoals(segs, k) ==
    IF k = 0 THEN Zero ELSE Add(sumGoals(segs, k - 1), segs[k].goalPercent)

\* addToLast leaving the segments as calculated
addToLast_Skip(segs, difference) == segs

\* addToLast adjusting the first segment
addToLast_First(segs, difference) ==
    [segs EXCEPT ![1].goalPercent = Add(@, difference)]

\* the segments with the difference added to the goal of the last one
addToLast(segs, difference) ==
    [segs EXCEPT ![Len(segs)].goalPercent = Add(@, difference)]

\* generateCurveSegments after the switch: the reduce, the threshold test and
\* the adjustment of the last segment
CalculateGoals ==
    /\ pc = "calculateGoals"
    /\ LET calculated == calculatedSegments(segments, goalContext)
           total == sumGoals(calculated, Len(calculated))
           difference == Sub(Num(TOTAL_PERCENT_REQUIRED), total)
       IN  /\ totalGoalPercent' = total
           /\ IF exceedsThreshold(difference)
              THEN /\ pc' = "thrown"
                   /\ error' = "Total goal percent must equal 100"
                   /\ segments' = calculated
              ELSE /\ pc' = "returned"
                   /\ segments' = addToLast(calculated, difference)
                   /\ UNCHANGED error
    /\ UNCHANGED <<dateRangeVars, serviceVars, previous, flight, events,
                   goalType, i,
                   currentStart,
                   goalContext>>

Next ==
    \/ CheckDateRanges
    \/ ProcessEventByDay
    \/ FinishEventsByDay
    \/ ProcessEventByTotal
    \/ FinishEventsByTotal
    \/ CalculateGoals

Spec == Init /\ [][Next]_vars

SpecPlacement == InitPlacement /\ [][Next]_vars

\* calls on templates of events placed anywhere, in any order, for the
\* flight from the first instant to the last one
InitLongFlight ==
    \E fl \in {f \in FlightDetails : /\ f.start = Instant(0)
                                     /\ f.end = Instant(MaxTime)
                                     /\ f.impressionGoal > 0},
       evs \in SeqsUpTo(PlacementEvents, MaxPlacementEvents),
       type \in GoalTypes : Called(fl, evs, type)

SpecLongFlight == InitLongFlight /\ [][Next]_vars

----------------------------------------------------------------------------
(* Calls in sequence on one template, as getLineItemPreviews makes them *)

\* the flights of the line items of the later calls: the two ranges of
\* PlacementFlights, with each impression goal
LineItemFlights ==
    {fl \in FlightDetails :
        \/ fl.start = Instant(0) /\ fl.end = Instant(MaxTime - 1)
        \/ fl.start = Instant(1) /\ fl.end = Instant(MaxTime)}

\* Call with the segment array kept by the template from call to call
Call_SharedSegments ==
    /\ pc \in {"returned", "thrown"}
    /\ \E fl \in LineItemFlights :
           /\ flight' = fl
           /\ currentStart' = fl.start
           /\ goalContext' = GoalContext(goalType, fl.impressionGoal)
    /\ previous' = pc
    /\ pc' = "generateCurveSegments"
    /\ i' = 1
    /\ totalGoalPercent' = Zero
    /\ error' = NoError
    /\ UNCHANGED <<dateRangeVars, serviceVars, events, goalType, segments>>

\* curveTemplate.generateCurveSegments(flight) for the next line item, once
\* the previous call has returned or thrown: the locals of the new call are
\* fresh, the template keeps its events and its goalType
Call ==
    /\ pc \in {"returned", "thrown"}
    /\ \E fl \in LineItemFlights :
           /\ flight' = fl
           /\ currentStart' = fl.start
           /\ goalContext' = GoalContext(goalType, fl.impressionGoal)
    /\ previous' = pc
    /\ pc' = "generateCurveSegments"
    /\ i' = 1
    /\ segments' = <<>>
    /\ totalGoalPercent' = Zero
    /\ error' = NoError
    /\ UNCHANGED <<dateRangeVars, serviceVars, events, goalType>>

NextCalls ==
    \/ CheckDateRanges
    \/ ProcessEventByDay
    \/ FinishEventsByDay
    \/ ProcessEventByTotal
    \/ FinishEventsByTotal
    \/ CalculateGoals
    \/ Call

SpecCalls == Init /\ [][NextCalls]_vars

----------------------------------------------------------------------------
(* Construction of DateRange, FlightDetails and ScheduledEvent objects *)

\* no call of generateCurveSegments is running: the state after a call on
\* an empty template has returned
InitDateRange ==
    /\ flight = [start |-> Instant(0), end |-> Instant(1),
                 impressionGoal |-> 0]
    /\ events = <<>>
    /\ goalType = "TOTAL"
    /\ pc = "returned"
    /\ i = 1
    /\ currentStart = Instant(0)
    /\ segments = <<[UnscheduledSegment("Post-Events",
                       DateObject("flight", 0, "start", Instant(0)), Num(12))
                       EXCEPT !.goalPercent = Num(100)]>>
    /\ goalContext = [GoalContext("TOTAL", 0) EXCEPT
                          !.unscheduledHours = Num(12)]
    /\ totalGoalPercent = Num(100)
    /\ error = NoError
    /\ previous = "none"
    /\ construction = [class |-> "none", start |-> Date(NaN),
                       end |-> Date(NaN), exception |-> NoException]
    /\ ranges = {}
    /\ NoService

\* new DateRange(start, end), new FlightDetails(start, end, impressionGoal)
\* or new ScheduledEvent(start, end, goalPercent, title): the constructor
\* of DateRange makes two Dates of its arguments and validates them; the
\* object exists if validate does not throw
Construct ==
    /\ Cardinality(ranges) < MaxRanges
    /\ \E class \in RangeClasses, start \in DateArguments,
          end \in DateArguments :
           LET thisStart == NewDate(start)
               thisEnd == NewDate(end)
               exception == validate(thisStart, thisEnd)
           IN  /\ construction' = [class |-> class, start |-> thisStart,
                                   end |-> thisEnd, exception |-> exception]
               /\ ranges' = IF exception = NoException
                            THEN ranges \cup {[start |-> thisStart.time.n,
                                               end |-> thisEnd.time.n]}
                            ELSE ranges
    /\ UNCHANGED <<flight, events, goalType, pc, i, currentStart, segments,
                   goalContext, totalGoalPercent, error, previous,
                   serviceVars>>

NextDateRange == Construct

SpecDateRange == InitDateRange /\ [][NextDateRange]_vars

----------------------------------------------------------------------------
(* generateCurveSegments as a function of the flight and of the template *)

\* the locals [segments, goalContext, currentStart, error] of
\* processEventsByDay after the loop from event k on and the statements
\* that follow it; error is the message of the Error thrown, if any
RECURSIVE processEventsByDay(_, _, _, _)
processEventsByDay(fl, evs, k, local) ==
    IF k > Len(evs)
    THEN LET hoursAfterLastEvent == hoursBetween(local.currentStart, fl.end)
         IN  IF ~Less(Zero, hoursAfterLastEvent) THEN local
             ELSE IF LessEq(local.goalContext.unscheduledImpressions, Zero)
             THEN [local EXCEPT !.error = "Goal is too large."]
             ELSE [local EXCEPT
                     !.segments = Append(@,
                         UnscheduledSegment("Post-Events",
                             currentStartAt(fl, evs, k),
                                            hoursAfterLastEvent)),
                     !.goalContext.unscheduledHours =
                         Add(@, hoursAfterLastEvent)]
    ELSE LET event == evs[k]
             flightHours == hoursBetween(fl.start, fl.end)
             evenDailyGoal ==
                 Mul(Div(Num(fl.impressionGoal), flightHours), Num(24))
             eventTitle == getTitleForCurve(event)
             relativeGoal ==
                 Mul(Div(event.goalPercent, Num(100)), evenDailyGoal)
             normalizedPercent ==
                 normalized(relativeGoal, fl.impressionGoal)
             hoursBeforeEvent == hoursBetween(local.currentStart, event.start)
             unscheduledImpressions ==
                 Sub(local.goalContext.unscheduledImpressions, relativeGoal)
             preEvent ==
                 IF Less(Zero, hoursBeforeEvent)
                 THEN <<UnscheduledSegment("Pre-Event [" \o eventTitle \o "]",
                                           currentStartAt(fl, evs, k),
                                           hoursBeforeEvent)>>
                 ELSE <<>>
         IN  IF goalTooLarge(unscheduledImpressions)
             THEN [local EXCEPT !.error = "Goal is too large"]
             ELSE processEventsByDay(fl, evs, k + 1,
                    [segments |-> local.segments \o preEvent \o
                        <<ScheduledEventSegment(eventTitle,
                            eventStartAt(evs, k),
                                                normalizedPercent)>>,
                     goalContext |-> [local.goalContext EXCEPT
                        !.unscheduledImpressions = unscheduledImpressions,
                        !.unscheduledHours =
                            IF Less(Zero, hoursBeforeEvent)
                            THEN Add(@, hoursBeforeEvent) ELSE @,
                        !.unscheduledPercent = Sub(@, normalizedPercent)],
                     currentStart |-> event.end,
                     error |-> NoError])

\* the same for processEventsByTotal
RECURSIVE processEventsByTotal(_, _, _, _)
processEventsByTotal(fl, evs, k, local) ==
    IF k > Len(evs)
    THEN LET hoursAfterLastEvent == hoursBetween(local.currentStart, fl.end)
         IN  IF ~Less(Zero, hoursAfterLastEvent) THEN local
             ELSE [local EXCEPT
                     !.segments = Append(@,
                         UnscheduledSegment("Post-Events",
                             currentStartAt(fl, evs, k),
                                            hoursAfterLastEvent)),
                     !.goalContext.unscheduledHours =
                         Add(@, hoursAfterLastEvent)]
    ELSE LET event == evs[k]
             eventTitle == getTitleForCurve(event)
             hoursBeforeEvent == hoursBetween(local.currentStart, event.start)
             preEvent ==
                 IF Less(Zero, hoursBeforeEvent)
                 THEN <<UnscheduledSegment("Pre-Event [" \o eventTitle \o "]",
                                           currentStartAt(fl, evs, k),
                                           hoursBeforeEvent)>>
                 ELSE <<>>
             unscheduledPercent ==
                 Sub(local.goalContext.unscheduledPercent, event.goalPercent)
         IN  IF exceedsTotal(unscheduledPercent)
             THEN [local EXCEPT
                     !.error = "Total goal percent is greater than 100"]
             ELSE IF endsWithZeroGoal(unscheduledPercent, event, fl)
             THEN [local EXCEPT
                     !.error = "The curve cannot end with a 0 percent goal"]
             ELSE processEventsByTotal(fl, evs, k + 1,
                    [segments |-> local.segments \o preEvent \o
                        <<ScheduledEventSegment(eventTitle,
                            eventStartAt(evs, k),
                                                event.goalPercent)>>,
                     goalContext |-> [local.goalContext EXCEPT
                        !.unscheduledHours =
                            IF Less(Zero, hoursBeforeEvent)
                            THEN Add(@, hoursBeforeEvent) ELSE @,
                        !.unscheduledPercent = unscheduledPercent],
                     currentStart |-> event.end,
                     error |-> NoError])

\* what the caller gets from an Error thrown
Thrown(message) == [error |-> message, segments |-> <<>>]

\* what the caller gets from `return segments`
Returned(segs) == [error |-> NoError, segments |-> segs]

\* the outcome of new CurveTemplate(evs, type).generateCurveSegments(fl)
generateCurveSegments(fl, evs, type) ==
    IF checkDateRanges(fl, evs) # NoError
    THEN Thrown(checkDateRanges(fl, evs))
    ELSE LET context == GoalContext(type, fl.impressionGoal)
             local ==
                 IF type = "DAY"
                 THEN processEventsByDay(fl, evs, 1,
                        [segments |-> <<>>,
                         goalContext |-> [context EXCEPT
                            !.unscheduledImpressions = Num(fl.impressionGoal)],
                         currentStart |-> fl.start,
                         error |-> NoError])
                 ELSE processEventsByTotal(fl, evs, 1,
                        [segments |-> <<>>, goalContext |-> context,
                         currentStart |-> fl.start, error |-> NoError])
             calculated == calculatedSegments(local.segments, local.goalContext)
             totalPercent == sumGoals(calculated, Len(calculated))
             difference == Sub(Num(TOTAL_PERCENT_REQUIRED), totalPercent)
         IN  IF local.error # NoError THEN Thrown(local.error)
             ELSE IF exceedsThreshold(difference)
             THEN Thrown("Total goal percent must equal 100")
             ELSE Returned(addToLast(calculated, difference))

----------------------------------------------------------------------------
(* AdManagerHandler.applyCurveToLineItems *)

TOTAL_MILLIPERCENT_REQUIRED == 100000

\* Math.round rounding toward minus infinity
MathRound_Floor(a) ==
    IF ~IsFinite(a) THEN a ELSE Num(a.n \div a.d)

\* Math.round: the integer nearest to a, halves going up
MathRound(a) ==
    IF ~IsFinite(a) THEN a ELSE Num((2 * a.n + a.d) \div (2 * a.d))

\* getDateTime: the ad_manager.DateTime of a Date, in the network time zone
\* (the fields of the date are kept as a day number)
getDateTime(date) ==
    [day |-> date \div (24 * MILLISECONDS_PER_HOUR),
     hour |-> (date % (24 * MILLISECONDS_PER_HOUR)) \div MILLISECONDS_PER_HOUR]

\* new Date(getDateString(dateTime)): the string "YYYY-MM-DD HH:mm:ss" of a
\* DateTime read back as a Date by the DateRange constructor
getDateString(dateTime) ==
    (dateTime.day * 24 + dateTime.hour) * MILLISECONDS_PER_HOUR

\* a line item downloaded from Ad Manager, its delivery not yet customised
LineItem(fl) ==
    [startDateTime |-> getDateTime(fl.start),
     endDateTime |-> getDateTime(fl.end),
     units |-> fl.impressionGoal,
     deliveryForecastSource |-> "HISTORICAL",
     customPacingCurve |-> [customPacingGoalUnit |-> "",
                            customPacingGoals |-> <<>>]]

\* the flights of the line items of SpecApply: from the first or the second
\* instant to the last one, with each impression goal
PacingFlights ==
    {fl \in FlightDetails :
        fl.start \in {Instant(0), Instant(1)} /\ fl.end = Instant(MaxTime)}

\* the rows of the templates of SpecApply
PacingRows == { <<Num(20), "">>, <<Num(50), "B">> }

PacingEvents ==
    {[start |-> r.start, end |-> r.end, goalPercent |-> row[1],
      title |-> row[2]] : r \in DateRanges, row \in PacingRows}

\* the templates of SpecApply: events in start order, pairwise disjoint
PacingTemplates ==
    {evs \in SeqsUpTo(PacingEvents, MaxPacingEvents) :
        \A k \in 2..Len(evs) : evs[k - 1].end <= evs[k].start}

\* the flight that applyCurveToLineItems makes of a line item
flightOf(lineItem) ==
    [start |-> getDateString(lineItem.startDateTime),
     end |-> getDateString(lineItem.endDateTime),
     impressionGoal |-> lineItem.units]

\* segment.start === flight.start: the two are the same Date object
sameDate(segment, fl) ==
    segment.startDate = DateObject("flight", 0, "start", fl.start)

\* the pacing goals pushed by the loop over the segments
pacingGoals(curveSegments, fl) ==
    [j \in 1..Len(curveSegments) |->
        [startDateTime |-> getDateTime(curveSegments[j].start),
         useLineItemStartDateTime |-> sameDate(curveSegments[j], fl),
         amount |-> MathRound(Mul(curveSegments[j].goalPercent, Num(1000)))]]

\* totalGoalMillipercent after k pacing goals
RECURSIVE totalGoalMillipercent(_, _)
totalGoalMillipercent(goals, k) ==
    IF k = 0 THEN Zero
    ELSE Add(totalGoalMillipercent(goals, k - 1), goals[k].amount)

\* the body of the loop over the line items, for one line item whose curve
\* has been generated
withCustomPacingCurve(lineItem, curveSegments) ==
    LET goals == pacingGoals(curveSegments, flightOf(lineItem))
        difference ==
            Sub(Num(TOTAL_MILLIPERCENT_REQUIRED),
                totalGoalMillipercent(goals, Len(goals)))
    IN  [lineItem EXCEPT
            !.deliveryForecastSource = "CUSTOM_PACING_CURVE",
            !.customPacingCurve =
                [customPacingGoalUnit |-> "MILLI_PERCENT",
                 customPacingGoals |->
                     [goals EXCEPT ![Len(curveSegments)].amount =
                         Add(@, difference)]]]

\* no call of generateCurveSegments is running and applyCurveToLineItems
\* has been called with a template and line items: it is at the head of
\* its loop over the line items
InitApply ==
    /\ flight = [start |-> Instant(0), end |-> Instant(1),
                 impressionGoal |-> 0]
    /\ events \in PacingTemplates
    /\ goalType \in GoalTypes
    /\ pc = "returned"
    /\ i = 1
    /\ currentStart = Instant(0)
    /\ segments = <<>>
    /\ goalContext = GoalContext(goalType, 0)
    /\ totalGoalPercent = Zero
    /\ error = NoError
    /\ previous = "none"
    /\ construction = [class |-> "none", start |-> Date(NaN),
                       end |-> Date(NaN), exception |-> NoException]
    /\ ranges = {}
    /\ lineItems \in
           {[k \in DOMAIN fls |-> LineItem(fls[k])] :
               fls \in SeqsUpTo(PacingFlights, MaxLineItems)}
    /\ applied = [outcome |-> "loop", error |-> NoError, index |-> 1]
    /\ NoUpload
    /\ NoLoad

\* the head of the loop over the line items: the FlightDetails of the
\* next line item and the call curveTemplate.generateCurveSegments(flight),
\* or the end of applyCurveToLineItems after the last line item
ForLineItem ==
    /\ applied.outcome = "loop"
    /\ IF applied.index > Len(lineItems)
       THEN /\ applied' = [applied EXCEPT !.outcome = "returned"]
            /\ UNCHANGED curveVars
       ELSE /\ applied' = [applied EXCEPT !.outcome = "curve"]
            /\ flight' = flightOf(lineItems[applied.index])
            /\ currentStart' = flight'.start
            /\ goalContext' = GoalContext(goalType, flight'.impressionGoal)
            /\ previous' = IF applied.index = 1 THEN "none" ELSE pc
            /\ pc' = "generateCurveSegments"
            /\ i' = 1
            /\ segments' = <<>>
            /\ totalGoalPercent' = Zero
            /\ error' = NoError
            /\ UNCHANGED <<events, goalType>>
    /\ UNCHANGED <<lineItems, dateRangeVars, uploadVars, loadVars>>

\* the body of the loop once generateCurveSegments has returned: the
\* pacing goals of the segments are pushed and the line item is given its
\* custom pacing curve
PushPacingGoals ==
    /\ applied.outcome = "curve"
    /\ pc = "returned"
    /\ lineItems' = [lineItems EXCEPT
           ![applied.index] = withCustomPacingCurve(@, segments)]
    /\ applied' = [applied EXCEPT !.outcome = "loop", !.index = @ + 1]
    /\ UNCHANGED <<curveVars, dateRangeVars, uploadVars, loadVars>>

\* the Error thrown by generateCurveSegments leaves applyCurveToLineItems
CurveError ==
    /\ applied.outcome = "curve"
    /\ pc = "thrown"
    /\ applied' = [applied EXCEPT !.outcome = "thrown", !.error = error]
    /\ UNCHANGED <<lineItems, curveVars, dateRangeVars, uploadVars,
                   loadVars>>

\* adManagerHandler.applyCurveToLineItems(lineItems, template)
NextApply ==
    \/ ForLineItem
    \/ CheckDateRanges
    \/ ProcessEventByDay
    \/ FinishEventsByDay
    \/ ProcessEventByTotal
    \/ FinishEventsByTotal
    \/ CalculateGoals
    \/ PushPacingGoals
    \/ CurveError

SpecApply == InitApply /\ [][NextApply]_vars

----------------------------------------------------------------------------
(* The server functions uploadLineItems and transformAndUploadLineItems *)

\* the last attempt of the do-while loop (`attempt <= 8`)
LAST_ATTEMPT == 8

\* errorString values of the errors of an AdManagerServerFault
ErrorStrings ==
    {"CommonError.CONCURRENT_MODIFICATION", "QuotaError.EXCEEDED_QUOTA",
     "InventoryTargetingError.INVENTORY_UNIT_CANNOT_BE_TARGETED"}

\* the AdManagerServerFaults of a request on n line items: at least one
\* error, each with an errorString and a fieldPath naming line item number
\* lineItemIndex of the request (`lineItem[k].path`), or no line item (0);
\* the errors after the first are errors on the targeting
Faults(n) ==
    {<<first>> \o rest :
        first \in [errorString : ErrorStrings, lineItemIndex : 0..n],
        rest \in SeqsUpTo(
            [errorString :
                 {"InventoryTargetingError.INVENTORY_UNIT_CANNOT_BE_TARGETED"},
             lineItemIndex : 0..n],
            MaxErrors - 1)}

\* the exception object of a fault: its message names the first error,
\* the fault is kept by what the handler reads of it
AdManagerServerFault(serverFault) ==
    [name |-> "AdManagerServerFault",
     message |-> serverFault[1].errorString,
     onLineItems |-> \E k \in DOMAIN serverFault :
                        serverFault[k].lineItemIndex > 0]

\* isTransientAdManagerError with the quota error taken as permanent
isTransientAdManagerError_NoQuota(serverFault) ==
    serverFault[1].errorString = "CommonError.CONCURRENT_MODIFICATION"

isTransientAdManagerError(serverFault) ==
    serverFault[1].errorString \in
        {"CommonError.CONCURRENT_MODIFICATION", "QuotaError.EXCEEDED_QUOTA"}

\* the errors whose fieldPath names a line item, as LineItemErrors
RECURSIVE extractLineItemErrors(_, _)
extractLineItemErrors(serverFault, items) ==
    IF serverFault = <<>> THEN <<>>
    ELSE LET first == Head(serverFault)
             rest == extractLineItemErrors(Tail(serverFault), items)
         IN  IF first.lineItemIndex > 0
             THEN <<[lineItemId |-> items[first.lineItemIndex],
                     errorString |-> first.errorString]>> \o rest
             ELSE rest

\* lineItems.filter(x => !lineItemErrors.some(y => y.lineItemId === x.id))
withoutFailures(items, lineItemErrors) ==
    SelectSeq(items,
              LAMBDA x : \A k \in DOMAIN lineItemErrors :
                             lineItemErrors[k].lineItemId # x)

\* the server function uploadLineItems has called
\* transformAndUploadLineItems, which is at the top of its loop
InitUpload ==
    /\ flight = [start |-> Instant(0), end |-> Instant(1),
                 impressionGoal |-> 0]
    /\ events = <<>>
    /\ goalType = "TOTAL"
    /\ pc = "returned"
    /\ i = 1
    /\ currentStart = Instant(0)
    /\ segments = <<>>
    /\ goalContext = GoalContext(goalType, 0)
    /\ totalGoalPercent = Zero
    /\ error = NoError
    /\ previous = "none"
    /\ construction = [class |-> "none", start |-> Date(NaN),
                       end |-> Date(NaN), exception |-> NoException]
    /\ ranges = {}
    /\ NoApply
    /\ NoLoad
    /\ uploadPc = "attempt"
    /\ lineItemIdsBatch \in {[k \in 1..n |-> k] : n \in 0..MaxBatch}
    /\ attempt = 1
    /\ lineItemsRetrieved = FALSE
    /\ uploadComplete = FALSE
    /\ batch = <<>>
    /\ errorMessages = <<>>
    /\ uploadThrown = "nothing"
    /\ downloadCalls = 0
    /\ uploadCalls = 0
    /\ sleeps = <<>>
    /\ caught = NothingCaught
    /\ reported = "nothing"

\* getLineItemsWithIds can return the line items of the batch
CanRetrieve == lineItemsRetrieved \/ lineItemIdsBatch # <<>>

\* lineItems after `if (!lineItemsRetrieved) { ... }` has completed
Retrieved == IF lineItemsRetrieved THEN batch ELSE lineItemIdsBatch

\* the calls made by an attempt that gets as far as the given stage
\* ("download", "transform" or "upload") and stops there, or completes
Reaches(stage) ==
    /\ stage = "download" => ~lineItemsRetrieved
    /\ stage # "download" => CanRetrieve
    /\ lineItemsRetrieved' = (lineItemsRetrieved \/ stage # "download")
    /\ downloadCalls' =
           IF lineItemsRetrieved THEN downloadCalls ELSE downloadCalls + 1
    /\ uploadCalls' =
           IF stage = "upload" THEN uploadCalls + 1 ELSE uploadCalls

\* lineItems as the catch block finds it
Caught(stage) == IF stage = "download" THEN batch ELSE Retrieved

\* `attempt++` and the test of the do-while loop
NextAttempt ==
    /\ attempt' = attempt + 1
    /\ uploadPc' = IF uploadComplete' \/ attempt + 1 > LAST_ATTEMPT
                   THEN "updateUploadStatus" ELSE "attempt"

\* an attempt in which no call throws
Upload ==
    /\ uploadPc = "attempt"
    /\ Reaches("upload")
    /\ batch' = Retrieved
    /\ uploadComplete' = TRUE
    /\ caught' = NothingCaught
    /\ NextAttempt
    /\ UNCHANGED <<curveVars, dateRangeVars, adManagerVars, loadVars>>
    /\ UNCHANGED <<lineItemIdsBatch, errorMessages, uploadThrown, sleeps,
                   reported>>

\* an attempt in which getLineItemsWithIds or uploadLineItems throws a
\* fault that isTransientAdManagerError accepts
TransientFault ==
    /\ uploadPc = "attempt"
    /\ \E stage \in {"download", "upload"} :
           /\ Reaches(stage)
           /\ stage = "download" => lineItemIdsBatch # <<>>
           /\ batch' = Caught(stage)
           /\ \E e \in Faults(IF stage = "download" THEN 0
                              ELSE Len(Retrieved)) :
                  /\ isTransientAdManagerError(e)
                  /\ caught' = AdManagerServerFault(e)
    /\ sleeps' = Append(sleeps, attempt)
    /\ uploadComplete' = FALSE
    /\ NextAttempt
    /\ UNCHANGED <<curveVars, dateRangeVars, adManagerVars, loadVars>>
    /\ UNCHANGED <<lineItemIdsBatch, errorMessages, uploadThrown, reported>>

\* an attempt in which uploadLineItems throws a fault that is not transient
\* and has errors on line items of the request
LineItemFault ==
    /\ uploadPc = "attempt"
    /\ Reaches("upload")
    /\ \E e \in Faults(Len(Retrieved)) :
           LET lineItemErrors == extractLineItemErrors(e, Retrieved)
           IN  /\ ~isTransientAdManagerError(e)
               /\ Len(lineItemErrors) > 0
               /\ batch' = withoutFailures(Retrieved, lineItemErrors)
               /\ errorMessages' = errorMessages \o lineItemErrors
               /\ caught' = AdManagerServerFault(e)
    /\ uploadComplete' = FALSE
    /\ NextAttempt
    /\ UNCHANGED <<curveVars, dateRangeVars, adManagerVars, loadVars>>
    /\ UNCHANGED <<lineItemIdsBatch, uploadThrown, sleeps, reported>>

\* an attempt in which a call throws a fault that is not transient and has
\* no error on a line item: `throw e`
OtherFault ==
    /\ uploadPc = "attempt"
    /\ \E stage \in {"download", "upload"} :
           /\ Reaches(stage)
           /\ stage = "download" => lineItemIdsBatch # <<>>
           /\ batch' = Caught(stage)
           /\ \E e \in Faults(IF stage = "download" THEN 0
                              ELSE Len(Retrieved)) :
                  /\ ~isTransientAdManagerError(e)
                  /\ extractLineItemErrors(e, Caught(stage)) = <<>>
                  /\ caught' = AdManagerServerFault(e)
    /\ uploadThrown' = "AdManagerServerFault"
    /\ uploadPc' = "thrown"
    /\ UNCHANGED <<curveVars, dateRangeVars, adManagerVars, loadVars>>
    /\ UNCHANGED <<lineItemIdsBatch, attempt, uploadComplete, errorMessages,
                   sleeps, reported>>

\* an attempt in which a call throws something that is not an
\* AdManagerServerFault, as getLineItemsWithIds does for an empty batch and
\* the transformer does when the template does not fit a line item
UnrecognizedError ==
    /\ uploadPc = "attempt"
    /\ \E stage \in {"download", "transform", "upload"} :
           /\ Reaches(stage)
           /\ batch' = Caught(stage)
    /\ caught' = [name |-> "Error", message |-> "", onLineItems |-> FALSE]
    /\ uploadThrown' = "Error"
    /\ uploadPc' = "thrown"
    /\ UNCHANGED <<curveVars, dateRangeVars, adManagerVars, loadVars>>
    /\ UNCHANGED <<lineItemIdsBatch, attempt, uploadComplete, errorMessages,
                   sleeps, reported>>

\* updateUploadStatus(lineItemIds.length, limit); return errorMessages
UpdateUploadStatus ==
    /\ uploadPc = "updateUploadStatus"
    /\ uploadPc' = "returned"
    /\ UNCHANGED <<curveVars, dateRangeVars, adManagerVars, loadVars>>
    /\ UNCHANGED <<lineItemIdsBatch, attempt, lineItemsRetrieved,
                   uploadComplete, batch, errorMessages, uploadThrown,
                   downloadCalls, uploadCalls, sleeps, caught, reported>>

\* the end of the server function uploadLineItems: it throws if error
\* messages came back and lets what transformAndUploadLineItems threw pass
Report ==
    /\ uploadPc \in {"returned", "thrown"}
    /\ reported' = IF uploadPc = "thrown" \/ Len(errorMessages) > 0
                   THEN "failure" ELSE "success"
    /\ uploadPc' = "done"
    /\ UNCHANGED <<curveVars, dateRangeVars, adManagerVars, loadVars>>
    /\ UNCHANGED <<lineItemIdsBatch, attempt, lineItemsRetrieved,
                   uploadComplete, batch, errorMessages, uploadThrown,
                   downloadCalls, uploadCalls, sleeps, caught>>

NextUpload ==
    \/ Upload
    \/ TransientFault
    \/ LineItemFault
    \/ OtherFault
    \/ UnrecognizedError
    \/ UpdateUploadStatus
    \/ Report

SpecUpload == InitUpload /\ [][NextUpload]_vars

\* the script runs: every call it makes returns or throws
SpecUploadFair == SpecUpload /\ WF_vars(NextUpload)

----------------------------------------------------------------------------
(* The server function loadLineItems, called once per page by the sidebar *)

\* PAGE_SIZE of the sidebar, the `limit` of every loadLineItems call
PAGE_SIZE == 50

\* Math.ceil(a / b) for positive integers
MathCeil(a, b) == (a + b - 1) \div b

\* the calls that the sidebar starts: call k has offset (k - 1) * PAGE_SIZE
Requests == 1..MathCeil(taskTotal, PAGE_SIZE)

\* the keys of a set of script properties, in increasing order
RECURSIVE getKeys(_)
getKeys(properties) ==
    IF properties = {} THEN <<>>
    ELSE LET first == CHOOSE k \in properties : \A j \in properties : k <= j
         IN  <<first>> \o getKeys(properties \ {first})

\* beginLoadLineItems has returned the number of line items and the sidebar
\* has started one loadLineItems call per page
InitLoad ==
    /\ flight = [start |-> Instant(0), end |-> Instant(1),
                 impressionGoal |-> 0]
    /\ events = <<>>
    /\ goalType = "TOTAL"
    /\ pc = "returned"
    /\ i = 1
    /\ currentStart = Instant(0)
    /\ segments = <<>>
    /\ goalContext = GoalContext(goalType, 0)
    /\ totalGoalPercent = Zero
    /\ error = NoError
    /\ previous = "none"
    /\ construction = [class |-> "none", start |-> Date(NaN),
                       end |-> Date(NaN), exception |-> NoException]
    /\ ranges = {}
    /\ NoApply
    /\ NoUpload
    /\ taskTotal \in {n * PAGE_SIZE - r : n \in 1..MaxPages, r \in {0, 49}}
    /\ taskCurrent = 0
    /\ scriptProperties = {}
    /\ loadPc = [k \in Requests |-> "setProperty"]
    /\ validKeys = [k \in Requests |-> <<>>]
    /\ keyIndex = [k \in Requests |-> 1]
    /\ lineItemRows = [k \in Requests |-> <<>>]
    /\ written = <<>>

\* getLineItemDtoPage and scriptProperties.setProperty('lineItemDtoPage' +
\* offset, ...) of one call
SetProperty ==
    /\ \E k \in DOMAIN loadPc :
           /\ loadPc[k] = "setProperty"
           /\ scriptProperties' = scriptProperties \cup {k}
           /\ loadPc' = [loadPc EXCEPT ![k] = "getKeys"]
    /\ UNCHANGED <<taskTotal, taskCurrent, validKeys, keyIndex,
                   lineItemRows, written>>
    /\ UNCHANGED <<curveVars, dateRangeVars, adManagerVars, uploadVars>>

\* scriptProperties.getKeys() and the filter on the key prefix
GetKeys ==
    /\ \E k \in DOMAIN loadPc :
           /\ loadPc[k] = "getKeys"
           /\ validKeys' = [validKeys EXCEPT ![k] = getKeys(scriptProperties)]
           /\ loadPc' = [loadPc EXCEPT ![k] = "setTaskProgress"]
    /\ UNCHANGED <<taskTotal, taskCurrent, scriptProperties, keyIndex,
                   lineItemRows, written>>
    /\ UNCHANGED <<curveVars, dateRangeVars, adManagerVars, uploadVars>>

\* getTaskProgress, setTaskProgress and the test that every page is cached
SetTaskProgress ==
    /\ \E k \in DOMAIN loadPc :
           /\ loadPc[k] = "setTaskProgress"
           /\ taskCurrent' =
                  IF Len(validKeys[k]) * PAGE_SIZE > taskTotal
                  THEN taskTotal ELSE Len(validKeys[k]) * PAGE_SIZE
           /\ loadPc' = [loadPc EXCEPT
                  ![k] = IF Len(validKeys[k]) = MathCeil(taskTotal, PAGE_SIZE)
                         THEN "getProperty" ELSE "returned"]
    /\ UNCHANGED <<taskTotal, scriptProperties, validKeys, keyIndex,
                   lineItemRows, written>>
    /\ UNCHANGED <<curveVars, dateRangeVars, adManagerVars, uploadVars>>

\* writeLineItemMetadata: getProperty(key) ?? '' and JSON.parse, which
\* throws a SyntaxError on '' when the property is not there
GetProperty ==
    /\ \E k \in DOMAIN loadPc :
           /\ loadPc[k] = "getProperty"
           /\ LET key == validKeys[k][keyIndex[k]]
              IN  IF key \in scriptProperties
                  THEN /\ lineItemRows' =
                              [lineItemRows EXCEPT ![k] = Append(@, key)]
                       /\ loadPc' = [loadPc EXCEPT ![k] = "deleteProperty"]
                  ELSE /\ loadPc' = [loadPc EXCEPT ![k] = "thrown"]
                       /\ UNCHANGED lineItemRows
    /\ UNCHANGED <<taskTotal, taskCurrent, scriptProperties, validKeys,
                   keyIndex, written>>
    /\ UNCHANGED <<curveVars, dateRangeVars, adManagerVars, uploadVars>>

\* writeLineItemMetadata: scriptProperties.deleteProperty(key) and the
\* next key of the loop
DeleteProperty ==
    /\ \E k \in DOMAIN loadPc :
           /\ loadPc[k] = "deleteProperty"
           /\ scriptProperties' =
                  scriptProperties \ {validKeys[k][keyIndex[k]]}
           /\ keyIndex' = [keyIndex EXCEPT ![k] = @ + 1]
           /\ loadPc' = [loadPc EXCEPT
                  ![k] = IF keyIndex[k] + 1 > Len(validKeys[k])
                         THEN "writeLineItems" ELSE "getProperty"]
    /\ UNCHANGED <<taskTotal, taskCurrent, validKeys, lineItemRows, written>>
    /\ UNCHANGED <<curveVars, dateRangeVars, adManagerVars, uploadVars>>

\* writeLineItemMetadata: sheetHandler.writeLineItems(lineItemRows)
WriteLineItems ==
    /\ \E k \in DOMAIN loadPc :
           /\ loadPc[k] = "writeLineItems"
           /\ written' = Append(written, lineItemRows[k])
           /\ loadPc' = [loadPc EXCEPT ![k] = "returned"]
    /\ UNCHANGED <<taskTotal, taskCurrent, scriptProperties, validKeys,
                   keyIndex, lineItemRows>>
    /\ UNCHANGED <<curveVars, dateRangeVars, adManagerVars, uploadVars>>

NextLoad ==
    \/ SetProperty
    \/ GetKeys
    \/ SetTaskProgress
    \/ GetProperty
    \/ DeleteProperty
    \/ WriteLineItems

SpecLoad == InitLoad /\ [][NextLoad]_vars

----------------------------------------------------------------------------
(* Vocabulary of the properties, stated on the inputs and the outcome *)

OutsideMessage == "Event date range is outside flight range"

OrderMessage == "Events must be ordered by date"

OverlapMessage == "Events date ranges must never overlap"

GreaterMessage == "Total goal percent is greater than 100"

ZeroGoalMessage == "The curve cannot end with a 0 percent goal"

Finished == pc \in {"returned", "thrown"}

Inside(k) ==
    events[k].start >= flight.start /\ events[k].end <= flight.end

StartsBeforePrevious(k) == k > 1 /\ events[k].start < events[k - 1].start

OverlapsPrevious(k) ==
    /\ k > 1
    /\ events[k].start < events[k - 1].end
    /\ events[k - 1].start < events[k].end

Violates(k) == ~Inside(k) \/ StartsBeforePrevious(k) \/ OverlapsPrevious(k)

PlacementValid == \A k \in 1..Len(events) : ~Violates(k)

\* the first event in list order for which P holds (P holds for some event)
First(P(_)) ==
    CHOOSE k \in 1..Len(events) : P(k) /\ \A j \in 1..(k - 1) : ~P(j)

RECURSIVE RawSum(_)
RawSum(k) == IF k = 0 THEN Zero ELSE Add(RawSum(k - 1), events[k].goalPercent)

RECURSIVE Total(_)
Total(k) == IF k = 0 THEN Zero ELSE Add(Total(k - 1), segments[k].goalPercent)

ScheduledSegments == SelectSeq(segments, LAMBDA x : x.kind = "scheduled")

LastSegment == segments[Len(segments)]

----------------------------------------------------------------------------
NoEventsOnePostEventsSegment ==
    (events = <<>> /\ Finished) =>
        /\ pc = "returned"
        /\ Len(segments) = 1
        /\ segments[1].kind = "unscheduled"
        /\ segments[1].description = "Post-Events"
        /\ segments[1].start = flight.start
        /\ segments[1].goalPercent = Num(100)

(* C3: in TOTAL mode a single event that spans the flight with goalPercent *)
(* 100 gives exactly one segment, the scheduled one with goalPercent 100,  *)
(* and no error.                                                           *)
EventCoveringFlight ==
    /\ goalType = "TOTAL"
    /\ Len(events) = 1
    /\ events[1].start = flight.start
    /\ events[1].end = flight.end
    /\ events[1].goalPercent = Num(100)

CoveringEventIsOnlySegment ==
    (EventCoveringFlight /\ Finished) =>
        /\ pc = "returned"
        /\ error = NoError
        /\ Len(segments) = 1
        /\ segments[1].kind = "scheduled"
        /\ segments[1].start = flight.start
        /\ segments[1].goalPercent = Num(100)

CoveringEventIsOnlySegment_Witness == EventCoveringFlight /\ pc = "returned"

(* C4, as claimed: in TOTAL mode every scheduled segment of a returned     *)
(* curve has the raw goalPercent of its event, the last segment included.  *)
ScheduledGoalIsRaw ==
    (pc = "returned" /\ goalType = "TOTAL") =>
        /\ Len(ScheduledSegments) = Len(events)
        /\ \A k \in 1..Len(events) :
               ScheduledSegments[k].goalPercent = events[k].goalPercent

(* C4, amended: in TOTAL mode every scheduled segment of a returned curve  *)
(* that is not the last segment of the curve has the raw goalPercent of    *)
(* its event; a scheduled segment that is the last segment has the raw     *)
(* goalPercent plus 100 - S, S being the sum of the computed goals.        *)
ScheduledGoalIsRawButLast ==
    (pc = "returned" /\ goalType = "TOTAL") =>
        /\ Len(ScheduledSegments) = Len(events)
        /\ \A k \in 1..Len(events) :
               ScheduledSegments[k].goalPercent =
                   IF k = Len(events) /\ LastSegment.kind = "scheduled"
                   THEN Add(events[k].goalPercent,
                            Sub(Num(100), totalGoalPercent))
                   ELSE events[k].goalPercent

\* a curve of two scheduled segments is returned, the last one adjusted
ScheduledGoalIsRawButLast_Witness ==
    /\ pc = "returned"
    /\ goalType = "TOTAL"
    /\ Len(events) = 2
    /\ LastSegment.kind = "scheduled"
    /\ LastSegment.goalPercent # events[2].goalPercent

(* C5: if some event is not contained in the flight the call fails, in     *)
(* both modes, before any segment is built; the error is 'Event date range *)
(* is outside flight range' whenever no earlier event violates the         *)
(* ordering or the overlap check.                                          *)
Outside(k) == ~Inside(k)

OutsideFlightFails ==
    (\E k \in 1..Len(events) : Outside(k)) =>
        /\ pc \in {"generateCurveSegments", "thrown"}
        /\ segments = <<>>
        /\ (pc = "thrown" /\
            \A j \in 1..(First(Outside) - 1) :
                ~StartsBeforePrevious(j) /\ ~OverlapsPrevious(j))
           => error = OutsideMessage

\* the second event ends after the flight, the first one is placed well
OutsideFlightFails_Witness ==
    /\ pc = "thrown"
    /\ Len(events) >= 2
    /\ ~Violates(1)
    /\ events[2].start >= events[1].end
    /\ events[2].start >= flight.start
    /\ events[2].end > flight.end
    /\ error = OutsideMessage

(* C6, as claimed: when all events lie inside the flight and some event    *)
(* starts before the event immediately before it, the call fails with      *)
(* 'Events must be ordered by date'.                                       *)
UnorderedFailsWithOrderError ==
    ((\A k \in 1..Len(events) : Inside(k)) /\
     (\E k \in 1..Len(events) : StartsBeforePrevious(k))) =>
        /\ pc \in {"generateCurveSegments", "thrown"}
        /\ pc = "thrown" => error = OrderMessage

(* C6, amended: when all events lie inside the flight and some event       *)
(* starts before the event immediately before it, the call fails, in both  *)
(* modes and whatever the percentages: with 'Events must be ordered by     *)
(* date', unless an event listed before the first such event overlaps its  *)
(* own predecessor, and then with 'Events date ranges must never overlap'. *)
UnorderedFails ==
    ((\A k \in 1..Len(events) : Inside(k)) /\
     (\E k \in 1..Len(events) : StartsBeforePrevious(k))) =>
        /\ pc \in {"generateCurveSegments", "thrown"}
        /\ segments = <<>>
        /\ pc = "thrown" =>
               error = IF \E j \in 1..(First(StartsBeforePrevious) - 1) :
                              OverlapsPrevious(j)
                       THEN OverlapMessage
                       ELSE OrderMessage

\* an unordered pair after a well placed first event
UnorderedFails_Witness ==
    /\ pc = "thrown"
    /\ error = OrderMessage
    /\ Len(events) = 3
    /\ \A k \in 1..3 : Inside(k)
    /\ ~Violates(2)
    /\ StartsBeforePrevious(3)

(* C7: for the last two events of a list, both inside the flight and in    *)
(* start order, the events before them passing validation: the call fails  *)
(* with 'Events date ranges must never overlap' exactly when the later one *)
(* starts before the earlier one ends (identical starts included); when    *)
(* the earlier one's end equals the later one's start, validation passes.  *)
LastTwoReached ==
    /\ Len(events) >= 2
    /\ \A k \in 1..(Len(events) - 1) : ~Violates(k)
    /\ Inside(Len(events))
    /\ events[Len(events) - 1].start <= events[Len(events)].start

OverlapFailsAdjacencyPasses ==
    (LastTwoReached /\ pc # "generateCurveSegments") =>
        LET a == events[Len(events) - 1]
            b == events[Len(events)]
        IN  /\ (pc = "thrown" /\ error = OverlapMessage) <=> b.start < a.end
            /\ a.end = b.start =>
                   error \notin {OutsideMessage, OrderMessage, OverlapMessage}

\* two back-to-back events have passed validation
OverlapFailsAdjacencyPasses_Witness ==
    /\ LastTwoReached
    /\ events[Len(events) - 1].end = events[Len(events)].start
    /\ pc \in {"processEventsByTotal", "processEventsByDay"}

(* C8: whenever some event violates a placement check, the error raised is *)
(* the placement error of the first violating event in list order (for     *)
(* that event: outside flight, then ordering, then overlap), no allocation *)
(* has been made and no allocation or reconciliation error is raised.      *)
PlacementMessage(k) ==
    IF ~Inside(k) THEN OutsideMessage
    ELSE IF StartsBeforePrevious(k) THEN OrderMessage
    ELSE OverlapMessage

PlacementErrorComesFirst ==
    (\E k \in 1..Len(events) : Violates(k)) =>
        /\ pc \in {"generateCurveSegments", "thrown"}
        /\ segments = <<>>
        /\ goalContext = GoalContext(goalType, flight.impressionGoal)
        /\ pc = "thrown" => error = PlacementMessage(First(Violates))

\* a placement error is raised for an event that both starts before and
\* overlaps its predecessor, the percentages summing to more than 100
PlacementErrorComesFirst_Witness ==
    /\ pc = "thrown"
    /\ error = OrderMessage
    /\ Len(events) >= 2
    /\ First(Violates) = 2
    /\ StartsBeforePrevious(2)
    /\ OverlapsPrevious(2)
    /\ Less(Num(100), RawSum(Len(events)))

(* C9, as claimed: in TOTAL mode every placement-valid list whose          *)
(* goalPercent values sum to more than 100 fails with 'Total goal percent  *)
(* is greater than 100'.                                                   *)
OverAllocated ==
    /\ goalType = "TOTAL"
    /\ PlacementValid
    /\ Less(Num(100), RawSum(Len(events)))

OverAllocationFailsWithGreater ==
    (OverAllocated /\ Finished) => (pc = "thrown" /\ error = GreaterMessage)

(* C9, amended: in TOTAL mode every placement-valid list whose goalPercent *)
(* values sum to more than 100 fails, at the first event after which the   *)
(* remaining percent (100 minus the percentages so far) is negative, or is *)
(* 0 with the event ending before the flight end: with 'Total goal percent *)
(* is greater than 100' in the first case, with 'The curve cannot end with *)
(* a 0 percent goal' in the second.                                        *)
StopsWalk(k) ==
    \/ Less(Num(100), RawSum(k))
    \/ RawSum(k) = Num(100) /\ events[k].end < flight.end

OverAllocationFails ==
    (OverAllocated /\ Finished) =>
        /\ pc = "thrown"
        /\ error = IF Less(Num(100), RawSum(First(StopsWalk)))
                   THEN GreaterMessage
                   ELSE ZeroGoalMessage

\* the second event takes the sum of the percentages above 100
OverAllocationFails_Witness ==
    /\ OverAllocated
    /\ pc = "thrown"
    /\ error = GreaterMessage
    /\ Len(events) = 2
    /\ Less(RawSum(1), Num(100))

(* C10: in TOTAL mode, when the walk of placement-valid events reaches an  *)
(* event after which the remaining unscheduled percent is exactly 0: if    *)
(* the event ends strictly before the flight end the call fails with 'The  *)
(* curve cannot end with a 0 percent goal'; if it ends at the flight end   *)
(* that error is not raised.                                               *)
Reached(k) == \A j \in 1..(k - 1) : ~StopsWalk(j)

ZeroRemainderFailsBeforeFlightEnd ==
    (goalType = "TOTAL" /\ PlacementValid /\ Finished) =>
        \A k \in 1..Len(events) :
            (Reached(k) /\ RawSum(k) = Num(100)) =>
                IF events[k].end < flight.end
                THEN pc = "thrown" /\ error = ZeroGoalMessage
                ELSE error # ZeroGoalMessage

\* the second of two events uses up the goal before the flight end
ZeroRemainderFailsBeforeFlightEnd_Witness ==
    /\ goalType = "TOTAL"
    /\ PlacementValid
    /\ pc = "thrown"
    /\ error = ZeroGoalMessage
    /\ Len(events) = 2
    /\ RawSum(2) = Num(100)
    /\ events[2].end < flight.end

(* C11: in both modes no returned curve has a last segment, filler or      *)
(* scheduled, whose goalPercent is 0.                                      *)
LastSegmentGoalIsNotZero ==
    pc = "returned" => LastSegment.goalPercent # Zero

(* C12: in DAY mode, walking placement-valid events in order, the call     *)
(* fails with 'Goal is too large' at the first event with which the        *)
(* running total of the relative goals (goalPercent / 100 * evenDailyGoal, *)
(* evenDailyGoal = impressionGoal / flightHours * 24) reaches or exceeds   *)
(* the impressionGoal, and no segment of that event has been emitted: the  *)
(* segments are those of the events before it.                             *)
TooLargeMessage == "Goal is too large"

RECURSIVE RelativeGoals(_)
RelativeGoals(k) ==
    IF k = 0 THEN Zero
    ELSE Add(RelativeGoals(k - 1),
             Mul(Div(events[k].goalPercent, Num(100)),
                 Mul(Div(Num(flight.impressionGoal),
                         Frac(flight.end - flight.start,
                              MILLISECONDS_PER_HOUR)),
                     Num(24))))

Exhausts(k) == LessEq(Num(flight.impressionGoal), RelativeGoals(k))

ExhaustedGoalFailsBeforeSegment ==
    (goalType = "DAY" /\ PlacementValid /\ Finished /\
     \E k \in 1..Len(events) : Exhausts(k)) =>
        /\ pc = "thrown"
        /\ error = TooLargeMessage
        /\ Len(ScheduledSegments) = First(Exhausts) - 1
        /\ segments # <<>> => LastSegment.kind = "scheduled"

\* the second event, which starts after a gap, exhausts the goal exactly
ExhaustedGoalFailsBeforeSegment_Witness ==
    /\ goalType = "DAY"
    /\ PlacementValid
    /\ pc = "thrown"
    /\ error = TooLargeMessage
    /\ Len(events) >= 2
    /\ First(Exhausts) = 2
    /\ events[1].end < events[2].start
    /\ RelativeGoals(2) = Num(flight.impressionGoal)
    /\ flight.impressionGoal > 0

(* C13: over any sequence of calls on one template, with any flights and   *)
(* whether the earlier calls returned or threw, the outcome of each call   *)
(* (the segments returned or the error thrown) is the one that             *)
(* generateCurveSegments gives for (events, goalType, flight) alone; the   *)
(* events of the template never change, and the flight does not change     *)
(* while a call is running.                                                *)
Outcome == IF pc = "returned" THEN Returned(segments) ELSE Thrown(error)

CallsAreIndependent ==
    /\ [](Finished =>
            Outcome = generateCurveSegments(flight, events, goalType))
    /\ [][/\ events' = events
          /\ goalType' = goalType
          /\ ~Finished => flight' = flight]_vars

\* a call on a template of several events returns a curve of several
\* segments after the call before it on the same template has failed
CallsAreIndependent_Witness ==
    /\ previous = "thrown"
    /\ pc = "returned"
    /\ Len(segments) > 1
    /\ Len(events) > 1

(* C14: in both modes every segment of every returned curve has a          *)
(* goalPercent between 0 and 100 inclusive.                                *)
GoalsBetween0And100 ==
    pc = "returned" =>
        \A k \in 1..Len(segments) :
            /\ LessEq(Zero, segments[k].goalPercent)
            /\ LessEq(segments[k].goalPercent, Num(100))

(* C15, as claimed: in a returned curve an event whose title is empty or   *)
(* blank (whitespace only) is rendered as 'Untitled', as the description   *)
(* of its scheduled segment and inside the label 'Pre-Event [Untitled]' of *)
(* the filler before it; any other title is rendered as it is; the events  *)
(* stored in the template keep their titles.                               *)
\* the event of the scheduled segment j of the curve
EventOf(j) ==
    events[Cardinality({m \in 1..j : segments[m].kind = "scheduled"})]

\* the segments of a returned curve are labelled with Title(event)
RenderedWith(Title(_)) ==
    pc = "returned" =>
        \A j \in 1..Len(segments) :
            segments[j].kind = "scheduled" =>
                /\ segments[j].description = Title(EventOf(j))
                /\ (j > 1 /\ segments[j - 1].kind = "unscheduled") =>
                       segments[j - 1].description =
                           "Pre-Event [" \o Title(EventOf(j)) \o "]"

IsBlank(title) == title \in {"", " "}

TitleOrUntitledIfBlank(event) ==
    IF IsBlank(event.title) THEN "Untitled" ELSE event.title

BlankTitleIsUntitled ==
    /\ []RenderedWith(TitleOrUntitledIfBlank)
    /\ [][events' = events]_vars

(* C15, amended: in a returned curve an event whose title is the empty     *)
(* string is rendered as 'Untitled', as the description of its scheduled   *)
(* segment and inside the label 'Pre-Event [Untitled]' of the filler       *)
(* before it; every other title, one of whitespace only included, is       *)
(* rendered as it is; the events stored in the template keep their titles. *)
TitleOrUntitledIfEmpty(event) ==
    IF event.title = "" THEN "Untitled" ELSE event.title

EmptyTitleIsUntitled ==
    /\ []RenderedWith(TitleOrUntitledIfEmpty)
    /\ [][events' = events]_vars

\* a curve is returned for an untitled event that follows a gap and an
\* event titled with a space
EmptyTitleIsUntitled_Witness ==
    /\ pc = "returned"
    /\ Len(events) = 2
    /\ Len(segments) = 3
    /\ events[1].title = ""
    /\ events[2].title = " "
    /\ segments[1].description = "Pre-Event [Untitled]"
    /\ segments[2].description = "Untitled"
    /\ segments[3].description = " "

(* C16, as claimed: constructing a DateRange, FlightDetails or             *)
(* ScheduledEvent fails with a TypeError if an argument does not resolve   *)
(* to a valid time value and with a RangeError if start is not strictly    *)
(* before end (equal instants included); every range object that exists    *)
(* has start < end.                                                        *)
Constructing == construction.class \in RangeClasses

InvalidArgument ==
    IsNaN(construction.start.time) \/ IsNaN(construction.end.time)

StartNotBeforeEnd ==
    /\ ~InvalidArgument
    /\ construction.start.time.n >= construction.end.time.n

RangesAreNotEmpty == \A r \in ranges : r.start < r.end

InvalidArgumentIsTypeError ==
    /\ (Constructing /\ InvalidArgument) =>
           construction.exception.name = "TypeError"
    /\ (Constructing /\ StartNotBeforeEnd) =>
           construction.exception.name = "RangeError"
    /\ RangesAreNotEmpty

(* C16, amended: constructing a DateRange, FlightDetails or ScheduledEvent *)
(* fails with the RangeError 'Input values must be valid dates' if an      *)
(* argument does not resolve to a valid time value, with the RangeError    *)
(* 'Start date must strictly precede end date' if both do and start is not *)
(* strictly before end (equal instants included), and succeeds otherwise;  *)
(* every range object that exists has start < end.                         *)
InvalidArgumentIsRangeError ==
    /\ (Constructing /\ InvalidArgument) =>
           construction.exception =
               [name |-> "RangeError",
                message |-> "Input values must be valid dates"]
    /\ (Constructing /\ StartNotBeforeEnd) =>
           construction.exception =
               [name |-> "RangeError",
                message |-> "Start date must strictly precede end date"]
    /\ (Constructing /\ ~InvalidArgument /\ ~StartNotBeforeEnd) =>
           /\ construction.exception = NoException
           /\ [start |-> construction.start.time.n,
               end |-> construction.end.time.n] \in ranges
    /\ RangesAreNotEmpty

\* a range exists and the construction of a ScheduledEvent of equal
\* instants has just been rejected
InvalidArgumentIsRangeError_Witness ==
    /\ construction.class = "ScheduledEvent"
    /\ StartNotBeforeEnd
    /\ construction.start.time = construction.end.time
    /\ construction.exception.name = "RangeError"
    /\ ranges # {}

(* C17: overlaps is symmetric: for every two range objects a and b,        *)
(* a.overlaps(b) equals b.overlaps(a).                                     *)
OverlapsIsSymmetric ==
    \A a \in ranges, b \in ranges : overlaps(a, b) = overlaps(b, a)

\* two ranges exist that intersect, neither inside the other
OverlapsIsSymmetric_Witness ==
    \E a \in ranges, b \in ranges :
        /\ a.start < b.start
        /\ b.start < a.end
        /\ a.end < b.end
        /\ overlaps(a, b)
        /\ overlaps(b, a)

(* C18: in DAY mode every scheduled segment of a returned curve, other     *)
(* than a last segment that the reconciliation has changed, has the        *)
(* goalPercent rawPercent * 24 / flightHours of its event (which is        *)
(* relativeGoal / impressionGoal * 100); and a call with an event whose    *)
(* raw percent is above 100 does not fail with 'Goal is too large' unless  *)
(* the relative goals reach the impressionGoal.                            *)
FlightHours == Frac(flight.end - flight.start, MILLISECONDS_PER_HOUR)

DayPercent(k) == Div(Mul(events[k].goalPercent, Num(24)), FlightHours)

Nudged(j) == j = Len(segments) /\ totalGoalPercent # Num(100)

DayGoalIsRawTimes24OverFlightHours ==
    (goalType = "DAY" /\ Finished) =>
        /\ pc = "returned" =>
               /\ Len(ScheduledSegments) = Len(events)
               /\ \A j \in 1..Len(segments) :
                      (segments[j].kind = "scheduled" /\ ~Nudged(j)) =>
                          segments[j].goalPercent =
                              DayPercent(Cardinality(
                                  {m \in 1..j :
                                      segments[m].kind = "scheduled"}))
        /\ (/\ PlacementValid
            /\ \E k \in 1..Len(events) :
                   Less(Num(100), events[k].goalPercent)
            /\ \A k \in 1..Len(events) : ~Exhausts(k)) =>
               error \notin {TooLargeMessage, "Goal is too large."}

\* a curve is returned for two events, the first with a raw percent above
\* 100, the second last in the curve and not changed by the reconciliation
DayGoalIsRawTimes24OverFlightHours_Witness ==
    /\ goalType = "DAY"
    /\ pc = "returned"
    /\ Len(events) = 2
    /\ Less(Num(100), events[1].goalPercent)
    /\ segments[1].kind = "unscheduled"
    /\ segments[2].goalPercent = DayPercent(1)
    /\ segments[2].goalPercent # events[1].goalPercent
    /\ LastSegment.kind = "scheduled"
    /\ LastSegment.goalPercent = DayPercent(2)

(* C19: in a returned curve each filler segment's goalPercent, before the  *)
(* correction of the last segment, is (its hours / the hours of all the    *)
(* fillers) * R, R being 100 minus the percentages of all the scheduled    *)
(* segments (raw in TOTAL mode, normalized in DAY mode); the fillers       *)
(* together receive exactly R.                                             *)
Fillers == {j \in 1..Len(segments) : segments[j].kind = "unscheduled"}

RECURSIVE FillerHours(_)
FillerHours(j) ==
    IF j = 0 THEN Zero
    ELSE IF j \in Fillers THEN Add(FillerHours(j - 1), segments[j].hours)
    ELSE FillerHours(j - 1)

\* the goalPercent of segment j before the correction of the last segment
Computed(j) ==
    IF j = Len(segments)
    THEN Sub(segments[j].goalPercent, Sub(Num(100), totalGoalPercent))
    ELSE segments[j].goalPercent

RECURSIVE ScheduledPercent(_)
ScheduledPercent(k) ==
    IF k = 0 THEN Zero
    ELSE Add(ScheduledPercent(k - 1),
             IF goalType = "DAY" THEN DayPercent(k) ELSE events[k].goalPercent)

Remainder == Sub(Num(100), ScheduledPercent(Len(events)))

RECURSIVE FillerPercent(_)
FillerPercent(j) ==
    IF j = 0 THEN Zero
    ELSE IF j \in Fillers THEN Add(FillerPercent(j - 1), Computed(j))
    ELSE FillerPercent(j - 1)

FillersShareRemainderByHours ==
    (pc = "returned" /\ Fillers # {}) =>
        /\ \A j \in Fillers :
               Computed(j) =
                   Mul(Div(segments[j].hours, FillerHours(Len(segments))),
                       Remainder)
        /\ FillerPercent(Len(segments)) = Remainder

\* a curve is returned with a filler before and a longer filler after an
\* event that takes a part of the goal
FillersShareRemainderByHours_Witness ==
    /\ pc = "returned"
    /\ Len(segments) = 3
    /\ Fillers = {1, 3}
    /\ Less(segments[1].hours, segments[3].hours)
    /\ Less(Zero, segments[1].goalPercent)
    /\ Less(segments[1].goalPercent, segments[3].goalPercent)
    /\ Less(Remainder, Num(100))

(* C20: when the segments have been built, S being the sum of their        *)
(* computed percentages (the stored percent of a scheduled segment, the    *)
(* share by hours of the remainder of a filler): if |100 - S| > 0.001 the  *)
(* call fails with 'Total goal percent must equal 100'; otherwise, a       *)
(* deviation of exactly 0.001 included, it returns the segments with their *)
(* computed percentages, but for the last one, which gets 100 - S more.    *)
MustEqualMessage == "Total goal percent must equal 100"

Expected(j) ==
    IF segments[j].kind = "scheduled" THEN segments[j].goalPercent
    ELSE Mul(Div(segments[j].hours, FillerHours(Len(segments))), Remainder)

RECURSIVE ExpectedSum(_)
ExpectedSum(j) ==
    IF j = 0 THEN Zero ELSE Add(ExpectedSum(j - 1), Expected(j))

Deviation == Sub(Num(100), ExpectedSum(Len(segments)))

DeviationAbove ==
    \/ Less(Frac(1, 1000), Deviation)
    \/ Less(Deviation, Frac(-1, 1000))

GapStart(k) == IF k = 1 THEN flight.start ELSE events[k - 1].end

GapEnd(k) == IF k > Len(events) THEN flight.end ELSE events[k].start

PositiveGaps == {k \in 1..(Len(events) + 1) : GapStart(k) < GapEnd(k)}

\* kind and start of the segments of the partition up to event k
RECURSIVE Partition(_)
Partition(k) ==
    IF k = 0 THEN <<>>
    ELSE Partition(k - 1) \o
         (IF k \in PositiveGaps THEN <<<<"unscheduled", GapStart(k)>>>>
          ELSE <<>>) \o
         (IF k > Len(events) THEN <<>>
          ELSE <<<<"scheduled", events[k].start>>>>)

CurvePartitionsFlight ==
    pc = "returned" =>
        /\ [j \in 1..Len(segments) |-> <<segments[j].kind, segments[j].start>>]
               = Partition(Len(events) + 1)
        /\ segments[1].start = flight.start
        /\ \A j \in 1..(Len(segments) - 1) :
               segments[j].start < segments[j + 1].start
        /\ \A j \in 1..Len(segments) :
               segments[j].kind = "unscheduled" =>
                   Less(Zero, segments[j].hours)
        /\ Len(segments) = Len(events) + Cardinality(PositiveGaps)
        /\ Len(events) <= Len(segments)
        /\ Len(segments) <= 2 * Len(events) + 1

\* a curve of three segments is returned for one event, with a filler
\* before it and one after it
CurvePartitionsFlight_Witness ==
    /\ pc = "returned"
    /\ Len(events) = 1
    /\ Len(segments) = 3
    /\ PositiveGaps = {1, 2}
    /\ segments[2].kind = "scheduled"

----------------------------------------------------------------------------
(* C22: the custom pacing goals of a line item *)

\* line item k carries a custom pacing curve
Carries(k) == lineItems[k].deliveryForecastSource = "CUSTOM_PACING_CURVE"

PacingGoalsOf(k) == lineItems[k].customPacingCurve.customPacingGoals

\* the curve generated for line item k
CurveOf(k) ==
    generateCurveSegments(flightOf(lineItems[k]), events, goalType).segments

\* amount is the integer nearest to x, halves going up:
\* amount <= x + 1/2 < amount + 1
IsRounded(amount, x) ==
    /\ amount.d = 1
    /\ LessEq(amount, Add(x, Frac(1, 2)))
    /\ Less(Add(x, Frac(1, 2)), Add(amount, Num(1)))

RECURSIVE SumOfAmounts(_, _)
SumOfAmounts(goals, j) ==
    IF j = 0 THEN Zero ELSE Add(SumOfAmounts(goals, j - 1), goals[j].amount)

----------------------------------------------------------------------------
(* C30: useLineItemStartDateTime *)

\* C30: a pacing goal has useLineItemStartDateTime = true exactly when its
\* segment starts at the instant at which the flight starts: the first
\* pacing goal of every line item has it true, whether its segment is a
\* filler or a scheduled event, and every later pacing goal has it false.
UsesLineItemStartExactlyAtFlightStart ==
    \A k \in DOMAIN lineItems :
        Carries(k) =>
            LET goals == PacingGoalsOf(k)
                curve == CurveOf(k)
            IN  /\ \A j \in DOMAIN goals :
                       goals[j].useLineItemStartDateTime =
                           (curve[j].start = flightOf(lineItems[k]).start)
                /\ goals[1].useLineItemStartDateTime
                /\ \A j \in 2..Len(goals) :
                       ~goals[j].useLineItemStartDateTime

----------------------------------------------------------------------------
(* C23: the attempts of transformAndUploadLineItems *)

\* transformAndUploadLineItems has returned or thrown
UploadEnded == uploadPc \in {"returned", "thrown", "done"}

\* the step is an attempt of the loop
IsAttempt == uploadPc = "attempt" /\ vars' # vars

\* the attempt of the step has caught a fault
CatchesFault == IsAttempt /\ caught'.name = "AdManagerServerFault"

\* the fault caught starts with one of the two transient errors
CatchesTransient ==
    /\ CatchesFault
    /\ caught'.message \in {"CommonError.CONCURRENT_MODIFICATION",
                            "QuotaError.EXCEEDED_QUOTA"}

\* C23: the call ends; uploadLineItems of the handler is called at most 8
\* times and never after an upload has succeeded; the attempt numbered k
\* that catches a transient fault sleeps k seconds and the loop goes on, so
\* that the delays increase strictly; once the line items have been
\* retrieved getLineItemsWithIds is not called again; and a fault that is
\* not transient and names no line item is rethrown by the attempt that
\* catches it, without a sleep and without another attempt.
UploadRetriesAtMost8Times ==
    /\ <>UploadEnded
    /\ [](/\ uploadCalls <= 8
          /\ attempt <= 9
          /\ uploadComplete => uploadPc # "attempt"
          /\ \A k \in 2..Len(sleeps) : sleeps[k - 1] < sleeps[k])
    /\ [][/\ uploadComplete => uploadCalls' = uploadCalls
          /\ lineItemsRetrieved =>
                 /\ downloadCalls' = downloadCalls
                 /\ lineItemsRetrieved'
          /\ CatchesTransient =>
                 /\ sleeps' = Append(sleeps, attempt)
                 /\ attempt' = attempt + 1
                 /\ uploadPc' \in {"attempt", "updateUploadStatus"}
          /\ IsAttempt /\ ~CatchesTransient => sleeps' = sleeps
          /\ CatchesFault /\ ~CatchesTransient /\ ~caught'.onLineItems =>
                 /\ uploadPc' = "thrown"
                 /\ uploadThrown' = "AdManagerServerFault"
                 /\ attempt' = attempt
                 /\ uploadCalls' <= uploadCalls + 1]_vars

\* eight attempts that all caught a transient fault at the upload: one
\* download, eight uploads, sleeps of 1 to 8 seconds
UploadRetriesAtMost8Times_Witness ==
    /\ uploadPc = "returned"
    /\ ~uploadComplete
    /\ sleeps = <<1, 2, 3, 4, 5, 6, 7, 8>>
    /\ uploadCalls = 8
    /\ downloadCalls = 1

----------------------------------------------------------------------------
(* C29: what the caller of uploadLineItems is told *)

\* C29: when transformAndUploadLineItems returns an empty list of error
\* messages an upload of the batch has succeeded, and the caller of the
\* server function uploadLineItems is told of a success only then: a batch
\* whose eight attempts all failed is reported as a failure.
EmptyErrorListMeansUploaded ==
    /\ uploadPc = "returned" /\ errorMessages = <<>> => uploadComplete
    /\ reported = "success" => uploadComplete
    /\ uploadPc = "done" /\ ~uploadComplete => reported = "failure"

----------------------------------------------------------------------------
(* C24: the parallel loadLineItems calls of one load *)

\* every loadLineItems call has ended
LoadEnded == \A k \in DOMAIN loadPc : loadPc[k] \in {"returned", "thrown"}

\* C24: under every interleaving of the calls of one load
\* sheetHandler.writeLineItems is invoked exactly once (never twice, and
\* once when all calls have ended), only after every page has been cached,
\* with the rows of all the pages, and no call reads a cached page that
\* another call has deleted.
LineItemsWrittenExactlyOnce ==
    /\ Len(written) <= 1
    /\ LoadEnded => Len(written) = 1
    /\ written # <<>> =>
           \A k \in DOMAIN loadPc : loadPc[k] # "setProperty"
    /\ \A w \in DOMAIN written :
           /\ Len(written[w]) = Cardinality(DOMAIN loadPc)
           /\ {written[w][j] : j \in DOMAIN written[w]} = DOMAIN loadPc
    /\ \A k \in DOMAIN loadPc : loadPc[k] # "thrown"

----------------------------------------------------------------------------
(* C25: what checkDateRanges establishes *)

\* checkDateRanges has returned without an error
PassedValidation ==
    /\ pc # "generateCurveSegments"
    /\ error \notin {OutsideMessage, OrderMessage, OverlapMessage}

\* C25: checkDateRanges compares each event with the one before it only,
\* yet when it passes every event ends no later than every later event
\* starts (the list is sorted by start and pairwise disjoint) and every
\* event lies inside the flight.
ValidationImpliesGlobalOrder ==
    PassedValidation =>
        /\ \A a \in 1..Len(events) : \A b \in (a + 1)..Len(events) :
               /\ events[a].end <= events[b].start
               /\ events[a].start <= events[b].start
               /\ ~overlaps(events[a], events[b])
        /\ \A k \in 1..Len(events) :
               flight.start <= events[k].start /\ events[k].end <= flight.end

\* three events have passed: the first and the third were never compared
ValidationImpliesGlobalOrder_Witness ==
    /\ PassedValidation
    /\ Len(events) = 3
    /\ events[1].end < events[3].start

----------------------------------------------------------------------------
(* C26: when 'Total goal percent must equal 100' can be raised *)

\* C26: the error 'Total goal percent must equal 100' is raised only for a
\* curve without a filler segment, the events covering the flight from its
\* start to its end without a gap; when the segments have been built and
\* one of them is a filler, the sum of the computed percentages is exactly
\* 100, in both modes.
MustEqualOnlyWithoutFiller ==
    /\ error = MustEqualMessage => Fillers = {} /\ PositiveGaps = {}
    /\ (pc = "returned" \/ error = MustEqualMessage) /\ Fillers # {} =>
           /\ totalGoalPercent = Num(100)
           /\ ExpectedSum(Len(segments)) = Num(100)

\* two events cover the flight and their percentages do not sum to 100
MustEqualOnlyWithoutFiller_Witness ==
    /\ pc = "thrown"
    /\ error = MustEqualMessage
    /\ Len(events) = 2
    /\ Len(segments) = 2
    /\ Fillers = {}

----------------------------------------------------------------------------
(* C27: DAY mode is TOTAL mode on rescaled percentages *)

\* the events with every percent p replaced by p * 24 / flightHours
Rescaled ==
    [k \in DOMAIN events |->
        [events[k] EXCEPT !.goalPercent =
            Div(Mul(@, Num(24)), hoursBetween(flight.start, flight.end))]]

\* the TOTAL-mode curve of the rescaled events for the same flight
TotalOfRescaled == generateCurveSegments(flight, Rescaled, "TOTAL")

\* the DAY-mode curve of the same events for ten times the impressions
DayOfTenfold ==
    generateCurveSegments([flight EXCEPT !.impressionGoal = 10 * @],
                          events, "DAY")

\* C27: for a flight with a positive impressionGoal, when the DAY-mode call
\* returns and the TOTAL-mode call on the events with percents
\* p * 24 / flightHours returns too, the two curves are the same: the
\* same segments with the same starts, descriptions and percentages; and
\* the DAY-mode curve is the same for another positive impressionGoal.
DayIsTotalOfRescaled ==
    pc = "returned" /\ goalType = "DAY" /\ flight.impressionGoal > 0 =>
        /\ TotalOfRescaled.error = NoError =>
               TotalOfRescaled.segments = segments
        /\ DayOfTenfold = Returned(segments)

\* a DAY-mode curve of a filler, an event and a longer filler has been
\* returned; the TOTAL-mode call on the rescaled events returns too
DayIsTotalOfRescaled_Witness ==
    /\ pc = "returned"
    /\ goalType = "DAY"
    /\ TotalOfRescaled.error = NoError
    /\ Len(segments) = 3
    /\ segments[1].kind = "unscheduled"
    /\ segments[3].kind = "unscheduled"
    /\ Less(segments[1].goalPercent, segments[3].goalPercent)
    /\ events[1].goalPercent # Rescaled[1].goalPercent

----------------------------------------------------------------------------
(* C28: in DAY mode normalized percentages summing to 100 or more fail *)

\* the normalized percentage of event k: its relative goal as a percentage
\* of the impression goal
NormalizedPercent(k) ==
    Mul(Div(Sub(RelativeGoals(k), RelativeGoals(k - 1)),
            Num(flight.impressionGoal)), Num(100))

RECURSIVE NormalizedSum(_)
NormalizedSum(k) ==
    IF k = 0 THEN Zero ELSE Add(NormalizedSum(k - 1), NormalizedPercent(k))

\* the events tile the flight: the first starts at the flight start, each
\* next one where the one before ends, and the last ends at the flight end
GapFree ==
    /\ events # <<>>
    /\ events[1].start = flight.start
    /\ \A k \in 2..Len(events) : events[k].start = events[k - 1].end
    /\ events[Len(events)].end = flight.end

\* the TOTAL-mode call on the same events with their normalized percentages
TotalOfNormalized ==
    generateCurveSegments(flight,
        [k \in DOMAIN events |->
            [events[k] EXCEPT !.goalPercent = NormalizedPercent(k)]],
        "TOTAL")

\* C28, as claimed: in DAY mode no call returns when the normalized
\* percentages of the events sum to 100 or more; a gap-free template whose
\* normalized percentages sum to exactly 100 fails with 'Goal is too
\* large', and the TOTAL-mode call on the same normalized percentages
\* returns.
FullAllocationFailsInDayOnly ==
    goalType = "DAY" /\ Finished =>
        /\ LessEq(Num(100), NormalizedSum(Len(events))) => pc = "thrown"
        /\ GapFree /\ NormalizedSum(Len(events)) = Num(100) =>
               /\ error = TooLargeMessage
               /\ TotalOfNormalized.error = NoError

\* the normalized percentages of the events before the last sum to less
\* than 100 at every event
StaysBelow100 ==
    \A k \in 1..(Len(events) - 1) : Less(NormalizedSum(k), Num(100))

\* C28: in DAY mode no call returns when the normalized percentages of the
\* events sum to 100 or more; a gap-free template whose normalized
\* percentages sum to exactly 100 fails with 'Goal is too large', and the
\* TOTAL-mode call on the same normalized percentages returns exactly when
\* the running sum of the percentages stays below 100 before the last
\* event.
FullAllocationFailsInDay ==
    goalType = "DAY" /\ Finished =>
        /\ LessEq(Num(100), NormalizedSum(Len(events))) => pc = "thrown"
        /\ GapFree /\ NormalizedSum(Len(events)) = Num(100) =>
               /\ error = TooLargeMessage
               /\ TotalOfNormalized.error = NoError <=> StaysBelow100

\* a DAY-mode call on two events that tile the flight with normalized
\* percentages summing to exactly 100 has failed; the TOTAL-mode call on
\* the normalized percentages returns
FullAllocationFailsInDay_Witness ==
    /\ goalType = "DAY"
    /\ pc = "thrown"
    /\ error = TooLargeMessage
    /\ Len(events) = 2
    /\ GapFree
    /\ NormalizedSum(2) = Num(100)
    /\ events[1].goalPercent # NormalizedPercent(1)
    /\ TotalOfNormalized.error = NoError

============================================================================
